---------------------------- MODULE Spec2Model ----------------------------
(***************************************************************************)
(* API gateway core: circuit breaker (internal/circuit over gobreaker),    *)
(* rate-limit algorithms (internal/ratelimit), and the proxied request     *)
(* path (internal/gateway + internal/proxy + pkg/loadbalancer).            *)
(*                                                                         *)
(* Time is a discrete monotonic clock `now`.  Every subsystem has its own  *)
(* specification (SpecBreaker, SpecTokenBucket, SpecSlidingWindow,         *)
(* SpecFixedWindow, SpecDistributed, SpecGateway); a specification leaves  *)
(* the variables of the other subsystems untouched.                        *)
(***************************************************************************)
EXTENDS Integers, Sequences, FiniteSets, TLC

\* ------------------------------------------------------------------ bounds
MaxTime == 4
MaxCalls == 4
MaxAllowCalls == 5
MaxHorizons == 1
MaxMs == 2
MaxStoreCalls == 3
MaxLimitCalls == 3
MaxLimitTime == 2
MaxTargets == 2
MaxWeight == 2
MaxPicks == 3
MaxRetries == 1
MaxProxied == 3
MaxProxyTime == 2
MaxRequests == 2
MaxLoads == 3
MaxAdminCalls == 2

\* concurrent callers (goroutines)
Procs == {"p1", "p2"}

\* the zero time.Time (expiry.IsZero())
ZeroTime == -1

\* gobreaker's default open timeout (60 s) when Settings.Timeout <= 0
DefaultTimeout == 60

Min(a, b) == IF a < b THEN a ELSE b
Max(a, b) == IF a > b THEN a ELSE b

VARIABLES
    now,            \* monotonic clock (time.Now())
    \* ---- circuit breaker used directly through Execute / Call
    cbCfg,          \* config.CircuitBreakerConfig of the breaker
    cb,             \* gobreaker state: state, generation, counts, expiry
    call,           \* per caller: position inside Execute and generation
    cbCalls,        \* number of Execute/Call invocations so far
    adm,            \* per caller: what beforeRequest last decided
    lastEnd,        \* what the last afterRequest saw and did
    openedAt,       \* time of the last transition to Open
    hoAdmitted,     \* calls admitted in the current half-open period
    hoSucc,         \* successes observed in the current half-open period
    closedErrRun,   \* failed calls in a row while Closed, since last success
    \* ---- proxied request path of one service
    gwCfg,          \* config.ServiceConfig of service "u"
    gwBreaker,      \* circuit.Manager.breakers["u"] (None when not created)
    lb,             \* load balancer state of the service's ReverseProxy
    gwReq,          \* per request goroutine: position in proxyRequest
    gwResp,         \* per request goroutine: last response written
    gwFailRun,      \* proxied requests in a row whose upstream outcome failed
    gwLastFailAt,   \* time of the last failed upstream outcome
    gwCount,        \* proxied requests so far
    \* ---- TokenBucket
    tbRule,         \* config.RateLimitRule the bucket is built from
    tbLimiters,     \* TokenBucket.limiters: key -> rate.Limiter state
    tbHist,         \* per key: times of the allowed calls
    tbStat,         \* per key: first call time, calls, allowed calls
    \* ---- SlidingWindow
    swCfg,          \* limit and window
    swWindows,      \* SlidingWindow.windows: key -> request log
    swProc,         \* per caller: position inside Allow
    swHist,         \* per key: times of the allowed calls
    swLast,         \* per key: what the last decision saw and did
    swCalls,        \* Allow calls begun so far
    \* ---- FixedWindow
    fwCfg,          \* limit and window
    fwCounters,     \* FixedWindow.counters: key -> (count, window start)
    fwProc,         \* per caller: position inside Allow
    fwHist,         \* per key: times of the allowed calls
    fwLast,         \* per key: what the last decision saw and did
    fwCalls,        \* Allow calls begun so far
    \* ---- DistributedRateLimit
    drlCfg,         \* limit and window (ms)
    zset,           \* shared store: key -> members of the ordered set
    zexpire,        \* shared store: key -> expiry time of the key
    drlProc,        \* per caller: position inside Allow and captured now
    drlHist,        \* per key: script decisions in evaluation order
    drlCount,       \* script runs so far
    \* ---- ratelimit.Manager behind the RateLimit middleware
    rlCfg,          \* config.RateLimitConfig and whether a store client exists
    rlAlgorithms,   \* Manager.algorithms: name -> algorithm instance
    rlState,        \* per algorithm instance: key -> limiter state
    rlOwn,          \* per instance and key: a limiter fed that key's calls only
    rlLast,         \* the last rate-limit check and what was answered
    rlSeen,         \* scopes and keys the middleware has used
    rlDenied,       \* keys that have been denied
    rlCalls,        \* rate-limit checks so far
    \* ---- pkg/loadbalancer
    balPolicy,      \* which LoadBalancer implementation the service uses
    balTargets,     \* the endpoint list, in configuration order
    balWeights,     \* weighted round robin: weight per endpoint
    balState,       \* the implementation's mutable state
    balProc,        \* per caller: position inside NextTarget
    balPicks,       \* the selections, in the order they were decided
    balMarked,      \* endpoints the forwarder has marked unhealthy
    balFrozen,      \* per marked endpoint: its connection count when marked
    balLast,        \* the last load-balancer operation and its result
    \* ---- the middleware chain of one request (gin.Context)
    ppCfg,          \* config.Server.CORS.Enabled
    ppReq,          \* the request: path, method, Authorization header
    ppHandlers,     \* c.handlers: the handler chain of the matched route
    ppIndex,        \* c.index: position of the handler to run next
    ppStack,        \* handlers that called c.Next() and wait for its return
    ppTrace,        \* the stages entered for this request, in order
    ppStatus,       \* c.Writer.Status() once written (0: not written)
    ppWriter,       \* which stage wrote the response, after how many stages
    ppUser,         \* c.Get("user"): the claims JWTAuth stored
    ppRecorded,     \* statuses RecordHTTPRequest was called with
    ppPhase,        \* idle, running (inside ServeHTTP) or done
    ppCount,        \* requests served so far
    \* ---- config.Manager
    cfFile,         \* what the configuration file holds
    cfFileUsed,     \* viper.ConfigFileUsed(): whether a file was set
    cfConfig,       \* Manager.config: the snapshot Get() returns
    cfLast,         \* the last Load/Reload/Get and how it ended
    cfCount,        \* Load/Reload calls so far
    cfBuilt,        \* the snapshot main built the components from
    cfGateway,      \* Gateway.config
    cfReq,          \* the last request and the snapshot that processed it
    \* ---- circuit.Manager and proxy.ProxyManager behind the admin routes
    amReset,        \* the last Manager.ResetBreaker call and its result
    amServices,     \* per service: its current configuration (none: removed)
    amProxies,      \* ProxyManager.proxies
    amBreakers,     \* circuit.Manager.breakers
    amProc,         \* per goroutine: position inside a ProxyManager call
    amCount         \* admin calls so far

cbVars == <<cbCfg, cb, call, cbCalls, adm, lastEnd, openedAt, hoAdmitted,
            hoSucc, closedErrRun>>
gwVars == <<gwCfg, gwBreaker, lb, gwReq, gwResp, gwFailRun, gwLastFailAt,
            gwCount>>
tbVars == <<tbRule, tbLimiters, tbHist, tbStat>>
swVars == <<swCfg, swWindows, swProc, swHist, swLast, swCalls>>
fwVars == <<fwCfg, fwCounters, fwProc, fwHist, fwLast, fwCalls>>
drlVars == <<drlCfg, zset, zexpire, drlProc, drlHist, drlCount>>
rlVars == <<rlCfg, rlAlgorithms, rlState, rlOwn, rlLast, rlSeen, rlDenied,
            rlCalls>>
balVars == <<balPolicy, balTargets, balWeights, balState, balProc, balPicks,
             balMarked, balFrozen, balLast>>

ppVars == <<ppCfg, ppReq, ppHandlers, ppIndex, ppStack, ppTrace, ppStatus,
            ppWriter, ppUser, ppRecorded, ppPhase, ppCount>>
cfVars == <<cfFile, cfFileUsed, cfConfig, cfLast, cfCount, cfBuilt,
            cfGateway, cfReq>>
amVars == <<amReset, amServices, amProxies, amBreakers, amProc, amCount>>

vars == <<now, cbVars, gwVars, tbVars, swVars, fwVars, drlVars, rlVars,
          balVars, ppVars, cfVars, amVars>>

\* a specification of one subsystem keeps the other subsystems idle
cbIdle ==
    /\ cbCfg = 0
    /\ cb = 0
    /\ call = 0
    /\ cbCalls = 0
    /\ adm = 0
    /\ lastEnd = 0
    /\ openedAt = 0
    /\ hoAdmitted = 0
    /\ hoSucc = 0
    /\ closedErrRun = 0
gwIdle ==
    /\ gwCfg = 0
    /\ gwBreaker = 0
    /\ lb = 0
    /\ gwReq = 0
    /\ gwResp = 0
    /\ gwFailRun = 0
    /\ gwLastFailAt = 0
    /\ gwCount = 0
tbIdle ==
    /\ tbRule = 0
    /\ tbLimiters = 0
    /\ tbHist = 0
    /\ tbStat = 0
swIdle ==
    /\ swCfg = 0
    /\ swWindows = 0
    /\ swProc = 0
    /\ swHist = 0
    /\ swLast = 0
    /\ swCalls = 0
fwIdle ==
    /\ fwCfg = 0
    /\ fwCounters = 0
    /\ fwProc = 0
    /\ fwHist = 0
    /\ fwLast = 0
    /\ fwCalls = 0
drlIdle ==
    /\ drlCfg = 0
    /\ zset = 0
    /\ zexpire = 0
    /\ drlProc = 0
    /\ drlHist = 0
    /\ drlCount = 0
rlIdle ==
    /\ rlCfg = 0
    /\ rlAlgorithms = 0
    /\ rlState = 0
    /\ rlOwn = 0
    /\ rlLast = 0
    /\ rlSeen = 0
    /\ rlDenied = 0
    /\ rlCalls = 0
balIdle ==
    /\ balPolicy = 0
    /\ balTargets = 0
    /\ balWeights = 0
    /\ balState = 0
    /\ balProc = 0
    /\ balPicks = 0
    /\ balMarked = 0
    /\ balFrozen = 0
    /\ balLast = 0
ppIdle ==
    /\ ppCfg = 0
    /\ ppReq = 0
    /\ ppHandlers = 0
    /\ ppIndex = 0
    /\ ppStack = 0
    /\ ppTrace = 0
    /\ ppStatus = 0
    /\ ppWriter = 0
    /\ ppUser = 0
    /\ ppRecorded = 0
    /\ ppPhase = 0
    /\ ppCount = 0
cfIdle ==
    /\ cfFile = 0
    /\ cfFileUsed = 0
    /\ cfConfig = 0
    /\ cfLast = 0
    /\ cfCount = 0
    /\ cfBuilt = 0
    /\ cfGateway = 0
    /\ cfReq = 0
amIdle ==
    /\ amReset = 0
    /\ amServices = 0
    /\ amProxies = 0
    /\ amBreakers = 0
    /\ amProc = 0
    /\ amCount = 0

\* =========================================================================
\* Circuit breaker
\* =========================================================================

ZeroCounts ==
    [Requests |-> 0, TotalSuccesses |-> 0, TotalFailures |-> 0,
     ConsecutiveSuccesses |-> 0, ConsecutiveFailures |-> 0]

\* gobreaker.Settings built by NewCircuitBreaker, with gobreaker's defaults
Settings(cfg) ==
    [MaxRequests |-> IF cfg.HalfOpenRequests = 0 THEN 1
                     ELSE cfg.HalfOpenRequests,
     Interval    |-> IF cfg.RecoveryTimeout <= 0 THEN 0
                     ELSE cfg.RecoveryTimeout,
     Timeout     |-> IF cfg.RecoveryTimeout <= 0 THEN DefaultTimeout
                     ELSE cfg.RecoveryTimeout,
     Threshold   |-> cfg.FailureThreshold]

\* ReadyToTrip callback
ReadyToTrip(st, counts) ==
    counts.ConsecutiveFailures >= st.Threshold

toNewGeneration(b, st, t) ==
    [b EXCEPT !.generation = @ + 1,
              !.counts = ZeroCounts,
              !.expiry = CASE b.state = "closed" ->
                                IF st.Interval = 0 THEN ZeroTime
                                ELSE t + st.Interval
                           [] b.state = "open" -> t + st.Timeout
                           [] OTHER -> ZeroTime]

setState(b, st, s, t) ==
    IF b.state = s THEN b
    ELSE toNewGeneration([b EXCEPT !.state = s], st, t)

currentState(b, st, t) ==
    CASE b.state = "closed" ->
            IF b.expiry # ZeroTime /\ b.expiry < t
            THEN toNewGeneration(b, st, t) ELSE b
      [] b.state = "open" ->
            IF b.expiry < t THEN setState(b, st, "half-open", t) ELSE b
      [] OTHER -> b

\* the breaker a NewCircuitBreaker call at time t returns
NewCircuitBreaker(cfg, t) ==
    toNewGeneration([state |-> "closed", generation |-> 0,
                     counts |-> ZeroCounts, expiry |-> ZeroTime],
                    Settings(cfg), t)

beforeRequest_noProbeLimit(b, st, t) ==
    LET c == currentState(b, st, t) IN
    IF c.state = "open"
    THEN [b |-> c, err |-> "ErrOpenState"]
    ELSE [b |-> [c EXCEPT !.counts.Requests = @ + 1], err |-> "none"]

\* beforeRequest: admit or reject a call
beforeRequest(b, st, t) ==
    LET c == currentState(b, st, t) IN
    IF c.state = "open"
    THEN [b |-> c, err |-> "ErrOpenState"]
    ELSE IF c.state = "half-open" /\ c.counts.Requests >= st.MaxRequests
    THEN [b |-> c, err |-> "ErrTooManyRequests"]
    ELSE [b |-> [c EXCEPT !.counts.Requests = @ + 1], err |-> "none"]

countsOnSuccess(c) ==
    [c EXCEPT !.TotalSuccesses = @ + 1,
              !.ConsecutiveSuccesses = @ + 1,
              !.ConsecutiveFailures = 0]

countsOnFailure(c) ==
    [c EXCEPT !.TotalFailures = @ + 1,
              !.ConsecutiveFailures = @ + 1,
              !.ConsecutiveSuccesses = 0]

onSuccess(b, st, t) ==
    CASE b.state = "closed" -> [b EXCEPT !.counts = countsOnSuccess(@)]
      [] b.state = "half-open" ->
            LET c == [b EXCEPT !.counts = countsOnSuccess(@)] IN
            IF c.counts.ConsecutiveSuccesses >= st.MaxRequests
            THEN setState(c, st, "closed", t) ELSE c
      [] OTHER -> b

onFailure_staysHalfOpen(b, st, t) ==
    CASE b.state = "closed" ->
            LET c == [b EXCEPT !.counts = countsOnFailure(@)] IN
            IF ReadyToTrip(st, c.counts)
            THEN setState(c, st, "open", t) ELSE c
      [] OTHER -> b

onFailure(b, st, t) ==
    CASE b.state = "closed" ->
            LET c == [b EXCEPT !.counts = countsOnFailure(@)] IN
            IF ReadyToTrip(st, c.counts)
            THEN setState(c, st, "open", t) ELSE c
      [] b.state = "half-open" -> setState(b, st, "open", t)
      [] OTHER -> b

\* afterRequest: record the outcome of a call admitted in generation `before`
afterRequest(b, st, before, success, t) ==
    LET c == currentState(b, st, t) IN
    IF c.generation # before THEN c
    ELSE IF success THEN onSuccess(c, st, t) ELSE onFailure(c, st, t)

\* ghost bookkeeping of a half-open period: a counter restarts whenever the
\* breaker is not half-open or has entered a new generation
HoCount(old, bOld, bNew, inc) ==
    IF bNew.state # "half-open" THEN 0
    ELSE IF bNew.generation # bOld.generation THEN inc
    ELSE old + inc

NoAdm == [res |-> "none", at |-> 0, preState |-> "closed",
          postState |-> "closed", openedAt |-> ZeroTime]

NoEnd == [valid |-> FALSE, ok |-> TRUE, fresh |-> FALSE, state |-> "closed",
          at |-> 0, hoSuccAfter |-> 0, post |-> "closed",
          postCounts |-> ZeroCounts, postExpiry |-> ZeroTime]

CBConfigs ==
    [FailureThreshold : {1, 2}, RecoveryTimeout : {1, 2},
     HalfOpenRequests : {1, 2}]

CBInitVars ==
    /\ cb = NewCircuitBreaker(cbCfg, 0)
    /\ call = [p \in Procs |-> [pc |-> "idle", gen |-> 0]]
    /\ cbCalls = 0
    /\ adm = [p \in Procs |-> NoAdm]
    /\ lastEnd = NoEnd
    /\ openedAt = ZeroTime
    /\ hoAdmitted = 0
    /\ hoSucc = 0
    /\ closedErrRun = 0

\* CircuitBreaker.Execute / Call, first half: gobreaker's beforeRequest.  A
\* rejected call returns its error at once, the wrapped function is not run.
Execute_before(p) ==
    /\ call[p].pc = "idle"
    /\ cbCalls < MaxCalls
    /\ LET st == Settings(cbCfg)
           r  == beforeRequest(cb, st, now)
       IN /\ cb' = r.b
          /\ cbCalls' = cbCalls + 1
          /\ call' = [call EXCEPT ![p] =
                        IF r.err = "none"
                        THEN [pc |-> "running", gen |-> r.b.generation]
                        ELSE [pc |-> "idle", gen |-> 0]]
          /\ adm' = [adm EXCEPT ![p] =
                        [res |-> IF r.err = "none" THEN "admitted" ELSE r.err,
                         at |-> now, preState |-> cb.state,
                         postState |-> r.b.state, openedAt |-> openedAt]]
          /\ hoAdmitted' = HoCount(hoAdmitted, cb, r.b,
                                   IF r.err = "none" THEN 1 ELSE 0)
          /\ hoSucc' = HoCount(hoSucc, cb, r.b, 0)
    /\ UNCHANGED <<now, cbCfg, lastEnd, openedAt, closedErrRun>>
    /\ UNCHANGED <<gwVars, tbVars, swVars, fwVars, drlVars,
                   rlVars, balVars,
                   ppVars, cfVars, amVars>>

\* CircuitBreaker.Execute / Call, second half: the wrapped function has
\* returned (ok or error) and gobreaker's afterRequest records it.
Execute_after(p, ok) ==
    /\ call[p].pc = "running"
    /\ LET st    == Settings(cbCfg)
           cur   == currentState(cb, st, now)
           fresh == cur.generation = call[p].gen
           b2    == afterRequest(cb, st, call[p].gen, ok, now)
           succ  == IF fresh /\ cur.state = "half-open" /\ ok THEN 1 ELSE 0
       IN /\ cb' = b2
          /\ call' = [call EXCEPT ![p] = [pc |-> "idle", gen |-> 0]]
          /\ lastEnd' = [valid |-> TRUE, ok |-> ok, fresh |-> fresh,
                         state |-> cur.state, at |-> now,
                         hoSuccAfter |-> HoCount(hoSucc, cb, cur, 0) + succ,
                         post |-> b2.state, postCounts |-> b2.counts,
                         postExpiry |-> b2.expiry]
          /\ openedAt' = IF b2.state = "open" /\ cur.state # "open"
                         THEN now ELSE openedAt
          /\ hoAdmitted' = HoCount(hoAdmitted, cb, b2, 0)
          /\ hoSucc' = IF b2.state # "half-open" THEN 0
                       ELSE HoCount(hoSucc, cb, cur, 0) + succ
          /\ closedErrRun' = IF ok THEN 0
                             ELSE IF cb.state = "closed" /\ b2.state = "closed"
                             THEN closedErrRun + 1
                             ELSE 0
    /\ UNCHANGED <<now, cbCfg, cbCalls, adm>>
    /\ UNCHANGED <<gwVars, tbVars, swVars, fwVars, drlVars,
                   rlVars, balVars,
                   ppVars, cfVars, amVars>>

\* CircuitBreaker.State(): reading the state applies pending expiries
State ==
    /\ cb' = currentState(cb, Settings(cbCfg), now)
    /\ cb' # cb
    /\ hoAdmitted' = HoCount(hoAdmitted, cb, cb', 0)
    /\ hoSucc' = HoCount(hoSucc, cb, cb', 0)
    /\ UNCHANGED <<now, cbCfg, call, cbCalls, adm, lastEnd, openedAt,
                   closedErrRun>>
    /\ UNCHANGED <<gwVars, tbVars, swVars, fwVars, drlVars,
                   rlVars, balVars,
                   ppVars, cfVars, amVars>>

\* the clock advances
Tick ==
    /\ now < MaxTime
    /\ now' = now + 1
    /\ UNCHANGED <<cbVars, gwVars, tbVars, swVars, fwVars, drlVars,
                   rlVars, balVars,
                   ppVars, cfVars, amVars>>

\* op: the last Manager.ResetBreaker call (none yet); err: the error it
\* returned; closed: whether the breaker was Closed with all counters zero
\* when it returned
NoReset == [op |-> "none", name |-> "none", err |-> "none", closed |-> FALSE]

\* Manager.ResetBreaker(name), the breaker of this specification being
\* registered as "u": an unknown name is an error; for a registered
\* breaker the call logs the request and returns nil
ResetBreaker(name) ==
    /\ amReset' = [op |-> "ResetBreaker", name |-> name,
                   err |-> IF name = "u" THEN "none" ELSE "not found",
                   closed |-> LET b == currentState(cb, Settings(cbCfg), now)
                              IN /\ b.state = "closed"
                                 /\ b.counts = ZeroCounts]
    /\ UNCHANGED <<now, cbVars, amServices, amProxies, amBreakers, amProc,
                   amCount>>
    /\ UNCHANGED <<gwVars, tbVars, swVars, fwVars, drlVars,
                   rlVars, balVars,
                   ppVars, cfVars>>

InitBreaker ==
    /\ now = 0
    /\ cbCfg \in CBConfigs
    /\ CBInitVars
    /\ gwIdle /\ tbIdle /\ swIdle /\ fwIdle /\ drlIdle
    /\ rlIdle /\ balIdle
    /\ ppIdle /\ cfIdle /\ amIdle

NextBreaker ==
    \/ \E p \in Procs : Execute_before(p)
    \/ \E p \in Procs, ok \in BOOLEAN : Execute_after(p, ok)
    \/ State
    \/ Tick

\* a circuit.Manager holding one breaker, "u", that serves calls and is
\* reset through the admin route
InitReset ==
    /\ now = 0
    /\ cbCfg \in {c \in CBConfigs : c.HalfOpenRequests = 1}
    /\ CBInitVars
    /\ amReset = NoReset
    /\ amServices = 0 /\ amProxies = 0 /\ amBreakers = 0
    /\ amProc = 0 /\ amCount = 0
    /\ gwIdle /\ tbIdle /\ swIdle /\ fwIdle /\ drlIdle
    /\ rlIdle /\ balIdle
    /\ ppIdle /\ cfIdle

NextReset ==
    \/ \E p \in Procs : Execute_before(p)
    \/ \E p \in Procs, ok \in BOOLEAN : Execute_after(p, ok)
    \/ State
    \/ Tick
    \/ \E name \in {"u", "x"} : ResetBreaker(name)

SpecReset == InitReset /\ [][NextReset]_vars

SpecBreaker == InitBreaker /\ [][NextBreaker]_vars

\* ------------------------------------------------------------ breaker claims

\* C33: after ResetBreaker(name) returned without error for an existing,
\* enabled breaker, that breaker is Closed and all of its counters are
\* zero, whatever state it was in before.
C33_ResetClosesBreaker ==
    (amReset.op = "ResetBreaker" /\ amReset.err = "none") => amReset.closed

\* C2: starting Closed, as soon as FailureThreshold calls in a row have
\* returned an error with no success in between, the breaker is Open,
\* whatever time elapses between the calls (so a Closed breaker never has a
\* run of FailureThreshold failed calls behind it).
C2_ConsecutiveFailuresOpen ==
    cb.state = "closed" => closedErrRun < cbCfg.FailureThreshold

\* C3: while Open and less than RecoveryTimeout has elapsed since opening,
\* every call is rejected without running the function; the first call after
\* RecoveryTimeout has elapsed finds the breaker HalfOpen (and is admitted);
\* while HalfOpen at most HalfOpenRequests calls are admitted.
C3_OpenRejectsThenProbes ==
    /\ \A p \in Procs :
          (adm[p].res # "none" /\ adm[p].preState = "open"
             /\ adm[p].at - adm[p].openedAt < cbCfg.RecoveryTimeout)
          => adm[p].res = "ErrOpenState"
    /\ \A p \in Procs :
          (adm[p].res # "none" /\ adm[p].preState = "open"
             /\ adm[p].at - adm[p].openedAt > cbCfg.RecoveryTimeout)
          => (adm[p].postState = "half-open" /\ adm[p].res = "admitted")
    /\ \A p \in Procs :
          adm[p].res \in {"ErrOpenState", "ErrTooManyRequests"}
          => call[p].pc = "idle"
    /\ cb.state = "half-open" => hoAdmitted <= cbCfg.HalfOpenRequests

\* a probe beyond the budget was rejected in a half-open period
C3_Witness ==
    /\ cb.state = "half-open"
    /\ hoAdmitted = cbCfg.HalfOpenRequests
    /\ \E p \in Procs : adm[p].res = "ErrTooManyRequests"
                        /\ adm[p].preState = "half-open"

\* C4: in HalfOpen, once HalfOpenRequests admitted calls have succeeded the
\* breaker is Closed with all counters zero; a failing admitted call sends it
\* back to Open at once, and it stays Open for a full RecoveryTimeout
\* measured from that failure.
C4_HalfOpenOutcome ==
    /\ (lastEnd.valid /\ lastEnd.fresh /\ lastEnd.state = "half-open")
       => IF ~lastEnd.ok
          THEN /\ lastEnd.post = "open"
               /\ lastEnd.postExpiry = lastEnd.at + cbCfg.RecoveryTimeout
          ELSE (lastEnd.hoSuccAfter >= cbCfg.HalfOpenRequests)
               => (lastEnd.post = "closed" /\ lastEnd.postCounts = ZeroCounts)
    /\ cb.state = "half-open" => hoSucc < cbCfg.HalfOpenRequests
    /\ (openedAt # ZeroTime /\ now <= openedAt + cbCfg.RecoveryTimeout)
       => cb.state = "open"

\* the second of two required probes succeeded and closed the breaker
C4_Witness ==
    /\ cbCfg.HalfOpenRequests = 2
    /\ lastEnd.valid /\ lastEnd.fresh /\ lastEnd.ok
    /\ lastEnd.state = "half-open"
    /\ lastEnd.hoSuccAfter = 2
    /\ cb.state = "closed"

\* =========================================================================
\* Proxied request path: Gateway.proxyRequest -> CircuitBreaker.Call ->
\* ReverseProxy.ServeHTTP -> load balancer -> upstream
\* =========================================================================

\* a nil pointer / absent map entry
None == "none"

\* circuit.Manager.GetBreaker returning nil: no breaker registered
NoBreaker == [state |-> None, generation |-> 0, counts |-> ZeroCounts,
              expiry |-> ZeroTime]

\* the service's endpoint URLs, in configuration order
Targets == <<"a", "b">>

\* what an upstream exchange can end in: a response with a 2xx, 4xx or 5xx
\* status, a transport error (a failed connection, or the round trip
\* abandoned because the inbound request was cancelled), a transport error
\* that is a net timeout, or the service's per-request timeout firing in
\* http.TimeoutHandler before the upstream returned response headers
Outcomes == {"2xx", "4xx", "5xx", "transport", "timeout", "deadline"}

\* the spec's notion of a failed upstream outcome
IsFailure(o) == o \in {"5xx", "transport", "timeout", "deadline"}

\* request methods; the spec calls GET/HEAD/PUT/DELETE/OPTIONS idempotent
Methods == {"GET", "POST"}

IsIdempotent(m) == m \in {"GET", "HEAD", "PUT", "DELETE", "OPTIONS"}

\* breaker settings of a service: disabled, or enabled with threshold 1 or 2
GWBreakerConfigs ==
    {[Enabled |-> en, FailureThreshold |-> t,
      RecoveryTimeout |-> 2, HalfOpenRequests |-> 1] :
        en \in BOOLEAN, t \in {1, 2}} \
    {[Enabled |-> FALSE, FailureThreshold |-> 2,
      RecoveryTimeout |-> 2, HalfOpenRequests |-> 1]}

GWConfigs ==
    {[LoadBalancer |-> pol, Timeout |-> to, Retries |-> n,
      CircuitBreaker |-> cbc] :
        pol \in {"round_robin", "least_connections"},
        to \in {0, 1}, n \in {0, MaxRetries}, cbc \in GWBreakerConfigs}

\* NewReverseProxy: the load balancer built for the configured policy
NewReverseProxy(cfg) ==
    [policy  |-> IF cfg.LoadBalancer = "least_connections"
                 THEN "least_connections" ELSE "round_robin",
     current |-> 0,
     conns   |-> [i \in 1..Len(Targets) |-> 0],
     healthy |-> [i \in 1..Len(Targets) |-> TRUE]]

\* RoundRobin.NextTarget: atomic counter, then modulo (0 stands for nil)
rrNextTarget(l) ==
    IF Len(Targets) = 0 THEN [lb |-> l, target |-> 0]
    ELSE [lb |-> [l EXCEPT !.current = @ + 1],
          target |-> ((l.current + 1) % Len(Targets)) + 1]

\* LeastConnections.NextTarget: first healthy target of minimal count
lcNextTarget(l) ==
    LET H == {i \in 1..Len(Targets) : l.healthy[i]} IN
    IF H = {} THEN [lb |-> l, target |-> 0]
    ELSE LET sel == CHOOSE i \in H :
                      \A j \in H : \/ l.conns[i] < l.conns[j]
                                   \/ (l.conns[i] = l.conns[j] /\ i <= j)
         IN [lb |-> [l EXCEPT !.conns[sel] = @ + 1], target |-> sel]

NextTarget(l) ==
    IF l.policy = "least_connections" THEN lcNextTarget(l)
    ELSE rrNextTarget(l)

MarkUnhealthy_ignored(l, t) == l

\* handleProxyError marks the target unhealthy when the balancer is a
\* HealthChecker; only LeastConnections implements it
MarkUnhealthy(l, t) ==
    IF l.policy = "least_connections"
    THEN [l EXCEPT !.healthy[t] = FALSE] ELSE l

\* status the client sees for an upstream outcome (representative codes)
StatusOf(o) ==
    CASE o = "2xx" -> 200
      [] o = "4xx" -> 400
      [] o = "5xx" -> 500
      [] o = "timeout" -> 504
      [] o = "deadline" -> 503
      [] OTHER -> 502

\* how an exchange that started at time at may end at time t under the
\* service timeout: http.TimeoutHandler answers once the timeout has
\* elapsed, the wrapped proxy answers before that (either at the instant
\* the timer fires); without a timeout the proxy is called directly
MayEndWith(cfg, at, t, o) ==
    IF o = "deadline" THEN cfg.Timeout > 0 /\ t - at >= cfg.Timeout
    ELSE cfg.Timeout = 0 \/ t - at <= cfg.Timeout

\* the function proxyRequest hands to circuitBreaker.Call runs ServeHTTP and
\* then returns nil, whatever ServeHTTP did: TRUE iff it returns an error
CallReturnsError(o) == FALSE

IdleReq == [pc |-> "idle", target |-> 0, gen |-> 0, run |-> 0, at |-> 0,
            lastFailAt |-> ZeroTime, method |-> None]

\* status: what the client received (0: nothing yet); upstream: an upstream
\* was contacted; attempts: how many times the request was forwarded
NoResp == [status |-> 0, upstream |-> FALSE, attempts |-> 0]

\* a response written without contacting an upstream
Local(code) == [status |-> code, upstream |-> FALSE, attempts |-> 0]

InitGateway ==
    /\ now = 0
    /\ gwCfg \in GWConfigs
    /\ gwBreaker = IF gwCfg.CircuitBreaker.Enabled
                   THEN NewCircuitBreaker(gwCfg.CircuitBreaker, 0)
                   ELSE NoBreaker
    /\ lb = NewReverseProxy(gwCfg)
    /\ gwReq = [p \in Procs |-> IdleReq]
    /\ gwResp = [p \in Procs |-> NoResp]
    /\ gwFailRun = 0
    /\ gwLastFailAt = ZeroTime
    /\ gwCount = 0
    /\ cbIdle /\ tbIdle /\ swIdle /\ fwIdle /\ drlIdle
    /\ rlIdle /\ balIdle
    /\ ppIdle /\ cfIdle /\ amIdle

\* Gateway.proxyRequest up to the moment the upstream is contacted: look up
\* the proxy (404), enter the breaker (503 when it rejects), pick a target
\* (503 when there is none; the breaker call then returns nil at once)
proxyRequest_begin(p, svc, m) ==
    /\ gwReq[p].pc = "idle"
    /\ gwCount < MaxProxied
    /\ gwCount' = gwCount + 1
    /\ LET st == Settings(gwCfg.CircuitBreaker)
           r  == IF gwBreaker.state = None
                 THEN [b |-> NoBreaker, err |-> "none"]
                 ELSE beforeRequest(gwBreaker, st, now)
           nt == NextTarget(lb)
       IN IF svc # "u"
          THEN /\ gwResp' = [gwResp EXCEPT ![p] = Local(404)]
               /\ UNCHANGED <<gwBreaker, lb, gwReq>>
          ELSE IF r.err # "none"
          THEN /\ gwBreaker' = r.b
               /\ gwResp' = [gwResp EXCEPT ![p] = Local(503)]
               /\ UNCHANGED <<lb, gwReq>>
          ELSE IF nt.target = 0
          THEN /\ gwBreaker' = IF r.b.state = None THEN NoBreaker
                               ELSE afterRequest(r.b, st, r.b.generation,
                                                 TRUE, now)
               /\ lb' = nt.lb
               /\ gwResp' = [gwResp EXCEPT ![p] = Local(503)]
               /\ UNCHANGED gwReq
          ELSE /\ gwBreaker' = r.b
               /\ lb' = nt.lb
               /\ gwReq' = [gwReq EXCEPT ![p] =
                              [pc |-> "upstream", target |-> nt.target,
                               gen |-> IF r.b.state = None THEN 0
                                       ELSE r.b.generation,
                               run |-> gwFailRun, at |-> now,
                               lastFailAt |-> gwLastFailAt,
                               method |-> m]]
               /\ gwResp' = [gwResp EXCEPT ![p] = NoResp]
    /\ UNCHANGED <<now, gwCfg, gwFailRun, gwLastFailAt>>
    /\ UNCHANGED <<cbVars, tbVars, swVars, fwVars, drlVars,
                   rlVars, balVars,
                   ppVars, cfVars, amVars>>

\* the upstream exchange ends: ServeHTTP relays the response, or
\* handleProxyError answers 502/504 and marks the target unhealthy, or the
\* timeout handler answers 503 (the cancelled round trip then reaches
\* handleProxyError too, its response being discarded); ServeHTTP forwards
\* once, whatever rp.retries holds, and returns without releasing the
\* target; the breaker then records what the wrapped function returned
proxyRequest_end(p, o) ==
    /\ gwReq[p].pc = "upstream"
    /\ MayEndWith(gwCfg, gwReq[p].at, now, o)
    /\ lb' = IF o \in {"transport", "timeout", "deadline"}
             THEN MarkUnhealthy(lb, gwReq[p].target) ELSE lb
    /\ gwResp' = [gwResp EXCEPT ![p] =
                     [status |-> StatusOf(o), upstream |-> TRUE,
                      attempts |-> 1]]
    /\ gwBreaker' = IF gwBreaker.state = None THEN NoBreaker
                    ELSE afterRequest(gwBreaker, Settings(gwCfg.CircuitBreaker),
                                      gwReq[p].gen, ~CallReturnsError(o), now)
    /\ gwReq' = [gwReq EXCEPT ![p] = IdleReq]
    /\ gwFailRun' = IF IsFailure(o) THEN gwFailRun + 1 ELSE 0
    /\ gwLastFailAt' = IF IsFailure(o) THEN now ELSE gwLastFailAt
    /\ UNCHANGED <<now, gwCfg, gwCount>>
    /\ UNCHANGED <<cbVars, tbVars, swVars, fwVars, drlVars,
                   rlVars, balVars,
                   ppVars, cfVars, amVars>>

\* the clock advances while requests are proxied
GatewayTick ==
    /\ now < MaxProxyTime
    /\ now' = now + 1
    /\ UNCHANGED <<cbVars, gwVars, tbVars, swVars, fwVars, drlVars,
                   rlVars, balVars,
                   ppVars, cfVars, amVars>>

NextGateway ==
    \/ \E p \in Procs, svc \in {"u", "x"}, m \in Methods :
          proxyRequest_begin(p, svc, m)
    \/ \E p \in Procs, o \in Outcomes : proxyRequest_end(p, o)
    \/ GatewayTick

SpecGateway == InitGateway /\ [][NextGateway]_vars

\* C1: for a service with an enabled breaker of threshold T, after T
\* consecutive proxied requests whose upstream outcome was a failure, the
\* next request (made while the breaker would still be open) is answered
\* without an upstream being contacted.
C1_BreakerShortCircuits ==
    \A p \in Procs :
        (gwBreaker.state # None /\ gwReq[p].pc = "upstream")
        => ~(/\ gwReq[p].run >= gwCfg.CircuitBreaker.FailureThreshold
             /\ gwReq[p].at <= gwReq[p].lastFailAt
                                 + gwCfg.CircuitBreaker.RecoveryTimeout)

\* requests currently being forwarded to the endpoint of index i
InFlightTo(i) ==
    Cardinality({p \in Procs : gwReq[p].pc = "upstream"
                                /\ gwReq[p].target = i})

\* C21: for a least-connections service the active-connection count of
\* each endpoint equals, at every moment, the number of requests being
\* forwarded to it (so it is 0 whenever no request is in flight).
C21_ActiveCountIsInFlight ==
    lb.policy = "least_connections"
    => \A i \in 1..Len(Targets) : lb.conns[i] = InFlightTo(i)

\* C22: a forward that ends after the service's per-request timeout has
\* expired, the upstream not having answered, gives the client status 504.
C22_DeadlineAnswers504 ==
    [][\A p \in Procs :
          (/\ gwReq[p].pc = "upstream" /\ gwReq'[p].pc = "idle"
           /\ gwCfg.Timeout > 0
           /\ now - gwReq[p].at > gwCfg.Timeout)
          => gwResp'[p].status = 504]_vars

\* C23: with retries = n > 0, a request with an idempotent method is
\* answered 502 only after it was forwarded 1 + n times (the first forward
\* and n retries, each ending in a transport error); a POST is forwarded at
\* most once.
C23_IdempotentRetried ==
    [][\A p \in Procs :
          (gwReq[p].pc = "upstream" /\ gwReq'[p].pc = "idle")
          => /\ (/\ gwCfg.Retries > 0
                 /\ IsIdempotent(gwReq[p].method)
                 /\ gwResp'[p].status = 502)
                => gwResp'[p].attempts = 1 + gwCfg.Retries
             /\ gwReq[p].method = "POST" => gwResp'[p].attempts <= 1]_vars

\* no endpoint of the service is healthy
AllUnhealthy == \A i \in 1..Len(Targets) : ~lb.healthy[i]

\* C38: for a least-connections service the set of healthy endpoints never
\* grows; every forward that ends in a proxy error (502, 504, or the 503 of
\* the expired timeout) leaves the chosen endpoint unhealthy; and once
\* every endpoint is unhealthy each later request to the service is
\* answered 503 without an upstream being contacted.
C38_HealthySetNeverGrows ==
    [][lb.policy = "least_connections"
       => /\ \A i \in 1..Len(Targets) : lb'.healthy[i] => lb.healthy[i]
          /\ \A p \in Procs :
                (/\ gwReq[p].pc = "upstream" /\ gwReq'[p].pc = "idle"
                 /\ gwResp'[p].status \in {502, 503, 504})
                => ~lb'.healthy[gwReq[p].target]
          /\ \A p \in Procs :
                (AllUnhealthy /\ gwReq[p].pc = "idle")
                => /\ gwReq'[p].pc = "idle"
                   /\ (gwResp'[p] # gwResp[p] /\ gwResp'[p].status # 404)
                      => gwResp'[p] = Local(503)]_vars

\* both endpoints failed and were marked, and the third request was
\* answered 503 by the proxy itself (the service has no breaker)
C38_Witness ==
    /\ lb.policy = "least_connections"
    /\ gwBreaker.state = None
    /\ AllUnhealthy
    /\ gwCount = 3
    /\ \E p \in Procs : gwResp[p] = Local(503)
    /\ \E p \in Procs : gwResp[p].upstream /\ gwResp[p].status = 502

\* =========================================================================
\* Rate limiting: TokenBucket over golang.org/x/time/rate
\* =========================================================================

\* rate-limit keys
Keys == {"k1", "k2"}

\* clock ticks per second: rate.Limit(rps) is a rate per second, a
\* RateLimitRule's Window is a duration
TicksPerSec == 2

\* rules (Requests, Window in seconds, Burst) the limiters are built from
Rules == [Requests : {1, 2}, Window : {1, 2}, Burst : {0, 1, 2}]

\* NewTokenBucket(rule.Requests, rule.Burst): the rule's Window is not used
NewTokenBucket(rule) == [rate |-> rule.Requests, burst |-> rule.Burst]

\* rate.NewLimiter: a full bucket.  Tokens are counted in units of
\* 1/TicksPerSec token, so that one tick refills `rate` units.
NewLimiter(tb, t) == [tokens |-> tb.burst * TicksPerSec, last |-> t]

\* rate.Limiter.advance: tokens after the lazy refill at time t
advance(tb, lim, t) ==
    Min(tb.burst * TicksPerSec, lim.tokens + tb.rate * (t - lim.last))

reserveN_noConsume(tb, lim, t) ==
    LET tokens == advance(tb, lim, t) IN
    IF 1 <= tb.burst /\ tokens - TicksPerSec >= 0
    THEN [ok |-> TRUE, lim |-> [tokens |-> tokens, last |-> t]]
    ELSE [ok |-> FALSE, lim |-> lim]

\* rate.Limiter.Allow = reserveN(now, 1, 0).ok: take one token if there is one
reserveN(tb, lim, t) ==
    LET tokens == advance(tb, lim, t) - TicksPerSec IN
    IF 1 <= tb.burst /\ tokens >= 0
    THEN [ok |-> TRUE, lim |-> [tokens |-> tokens, last |-> t]]
    ELSE [ok |-> FALSE, lim |-> lim]

NoLimiter == [tokens |-> -1, last |-> ZeroTime]

NoStat == [first |-> ZeroTime, n |-> 0, allowed |-> 0]

TBCalls == tbStat["k1"].n + tbStat["k2"].n

InitTokenBucket ==
    /\ now = 0
    /\ tbRule \in Rules
    /\ tbLimiters = [k \in Keys |-> NoLimiter]
    /\ tbHist = [k \in Keys |-> <<>>]
    /\ tbStat = [k \in Keys |-> NoStat]
    /\ cbIdle /\ gwIdle /\ swIdle /\ fwIdle /\ drlIdle
    /\ rlIdle /\ balIdle
    /\ ppIdle /\ cfIdle /\ amIdle

\* TokenBucket.Allow(key), entirely under tb.mu
TokenBucket_Allow(k) ==
    /\ TBCalls < MaxAllowCalls
    /\ LET tb  == NewTokenBucket(tbRule)
           lim == IF tbLimiters[k] = NoLimiter THEN NewLimiter(tb, now)
                  ELSE tbLimiters[k]
           r   == reserveN(tb, lim, now)
       IN /\ tbLimiters' = [tbLimiters EXCEPT ![k] = r.lim]
          /\ tbHist' = [tbHist EXCEPT ![k] =
                           IF r.ok THEN Append(@, now) ELSE @]
          /\ tbStat' = [tbStat EXCEPT ![k] =
                           [first   |-> IF @.n = 0 THEN now ELSE @.first,
                            n       |-> @.n + 1,
                            allowed |-> @.allowed + (IF r.ok THEN 1 ELSE 0)]]
    /\ UNCHANGED <<now, tbRule>>
    /\ UNCHANGED <<cbVars, gwVars, swVars, fwVars, drlVars,
                   rlVars, balVars,
                   ppVars, cfVars, amVars>>

\* TokenBucket.Reset(key): the key's limiter is dropped
TokenBucket_Reset(k) ==
    /\ tbLimiters[k] # NoLimiter
    /\ tbLimiters' = [tbLimiters EXCEPT ![k] = NoLimiter]
    /\ tbHist' = [tbHist EXCEPT ![k] = <<>>]
    /\ tbStat' = [tbStat EXCEPT ![k] = NoStat]
    /\ UNCHANGED <<now, tbRule>>
    /\ UNCHANGED <<cbVars, gwVars, swVars, fwVars, drlVars,
                   rlVars, balVars,
                   ppVars, cfVars, amVars>>

NextTokenBucket ==
    \/ \E k \in Keys : TokenBucket_Allow(k)
    \/ \E k \in Keys : TokenBucket_Reset(k)
    \/ Tick

SpecTokenBucket == InitTokenBucket /\ [][NextTokenBucket]_vars

\* number of entries of the time sequence h that lie in [t, t + w)
CountIn(h, t, w) == Cardinality({i \in DOMAIN h : t <= h[i] /\ h[i] < t + w})

\* C5: for a token bucket built from a rule (Requests L, Window W, Burst B),
\* every key and every interval of length W: at most L + B calls (since the
\* key's last reset) are allowed in the interval.
C5_TokenBucketWindowBound ==
    \A k \in Keys : \A t \in 0..MaxTime :
        CountIn(tbHist[k], t, tbRule.Window * TicksPerSec)
            <= tbRule.Requests + tbRule.Burst

\* C6: for a key with no prior state, the first B calls made at one instant
\* are all allowed and a (B+1)-th call at that instant is denied.
C6_BurstThenDeny ==
    \A k \in Keys :
        (tbStat[k].n > 0 /\ tbStat[k].first = now)
        => tbStat[k].allowed = Min(tbStat[k].n, tbRule.Burst)

\* a burst of 2 was allowed at one instant and the third call denied
C6_Witness ==
    \E k \in Keys :
        /\ tbRule.Burst = 2
        /\ tbStat[k].first = now
        /\ tbStat[k].n = 3
        /\ tbStat[k].allowed = 2

\* =========================================================================
\* Rate limiting: SlidingWindow
\* =========================================================================

\* limit and window (in ticks) the window limiters are built with
WindowConfigs == [limit : {1, 2}, window : {1, 2}]

NoWindow == [exists |-> FALSE, requests |-> <<>>]

NoDecision == [valid |-> FALSE, at |-> 0, allowed |-> FALSE, seen |-> 0]

IdleProc == [pc |-> "idle", key |-> "k1"]

\* the trimming loop of SlidingWindow.Allow: drop entries Before(cutoff)
\* from the head of the log
RECURSIVE swTrim(_, _)
swTrim(requests, cutoff) ==
    IF requests # <<>> /\ Head(requests) < cutoff
    THEN swTrim(Tail(requests), cutoff)
    ELSE requests

swDecide_offByOne(cfg, requests, t) ==
    LET kept == swTrim(requests, t - cfg.window) IN
    IF Len(kept) > cfg.limit
    THEN [ok |-> FALSE, requests |-> kept]
    ELSE [ok |-> TRUE, requests |-> Append(kept, t)]

\* the locked section of SlidingWindow.Allow at time t
swDecide(cfg, requests, t) ==
    LET kept == swTrim(requests, t - cfg.window) IN
    IF Len(kept) >= cfg.limit
    THEN [ok |-> FALSE, requests |-> kept]
    ELSE [ok |-> TRUE, requests |-> Append(kept, t)]

\* number of entries of h that are at least `from`
CountSince(h, from) == Cardinality({i \in DOMAIN h : h[i] >= from})

InitSlidingWindow ==
    /\ now = 0
    /\ swCfg \in WindowConfigs
    /\ swWindows = [k \in Keys |-> NoWindow]
    /\ swProc = [p \in Procs |-> IdleProc]
    /\ swHist = [k \in Keys |-> <<>>]
    /\ swLast = [k \in Keys |-> NoDecision]
    /\ swCalls = 0
    /\ cbIdle /\ gwIdle /\ tbIdle /\ fwIdle /\ drlIdle
    /\ rlIdle /\ balIdle
    /\ ppIdle /\ cfIdle /\ amIdle

\* SlidingWindow.Allow(key), first critical section (sw.mu): find or create
\* the key's window
SlidingWindow_Allow_lookup(p, k) ==
    /\ swProc[p].pc = "idle"
    /\ swCalls < MaxAllowCalls
    /\ swCalls' = swCalls + 1
    /\ swWindows' = [swWindows EXCEPT ![k] =
                        IF @.exists THEN @
                        ELSE [exists |-> TRUE, requests |-> <<>>]]
    /\ swProc' = [swProc EXCEPT ![p] = [pc |-> "window", key |-> k]]
    /\ UNCHANGED <<now, swCfg, swHist, swLast>>
    /\ UNCHANGED <<cbVars, gwVars, tbVars, fwVars, drlVars,
                   rlVars, balVars,
                   ppVars, cfVars, amVars>>

\* SlidingWindow.Allow(key), second critical section (window.mu): read the
\* clock, trim, decide, append
SlidingWindow_Allow_decide(p) ==
    /\ swProc[p].pc = "window"
    /\ LET k == swProc[p].key
           r == swDecide(swCfg, swWindows[k].requests, now)
       IN /\ swWindows' = [swWindows EXCEPT ![k].requests = r.requests]
          /\ swHist' = [swHist EXCEPT ![k] =
                           IF r.ok THEN Append(@, now) ELSE @]
          /\ swLast' = [swLast EXCEPT ![k] =
                           [valid |-> TRUE, at |-> now, allowed |-> r.ok,
                            seen |-> CountSince(swHist[k],
                                                now - swCfg.window)]]
    /\ swProc' = [swProc EXCEPT ![p] = IdleProc]
    /\ UNCHANGED <<now, swCfg, swCalls>>
    /\ UNCHANGED <<cbVars, gwVars, tbVars, fwVars, drlVars,
                   rlVars, balVars,
                   ppVars, cfVars, amVars>>

NextSlidingWindow ==
    \/ \E p \in Procs, k \in Keys : SlidingWindow_Allow_lookup(p, k)
    \/ \E p \in Procs : SlidingWindow_Allow_decide(p)
    \/ Tick

SpecSlidingWindow == InitSlidingWindow /\ [][NextSlidingWindow]_vars

\* the entries of h that are at least `from`, in order
Since(h, from) == LET Recent(x) == x >= from IN SelectSeq(h, Recent)

\* C7: under any interleaving of concurrent Allow calls, a call is allowed
\* iff fewer than L earlier allowed calls of the key lie in the trailing
\* window W; no interval of length W holds more than L allowed calls; after
\* any access the key's log is exactly the allows of the last W.
C7_SlidingWindowExact ==
    \A k \in Keys :
        /\ swLast[k].valid =>
              (swLast[k].allowed <=> swLast[k].seen < swCfg.limit)
        /\ \A t \in 0..MaxTime :
              CountIn(swHist[k], t, swCfg.window + 1) <= swCfg.limit
        /\ swLast[k].valid =>
              swWindows[k].requests
                 = Since(swHist[k], swLast[k].at - swCfg.window)

\* an allow that followed the trimming of an expired entry, decided while
\* another caller was between its two critical sections
C7_Witness ==
    \E k \in Keys :
        /\ swLast[k].valid /\ swLast[k].allowed
        /\ Len(swHist[k]) > swCfg.limit
        /\ Len(swWindows[k].requests) < Len(swHist[k])
        /\ \E p \in Procs : swProc[p].pc = "window" /\ swProc[p].key = k

\* =========================================================================
\* Rate limiting: FixedWindow
\* =========================================================================

NoCounter == [exists |-> FALSE, count |-> 0, window |-> 0]

\* time.Time.Truncate(d): round down to a multiple of d
Truncate(t, d) == t - (t % d)

fwDecide_noReset(cfg, counter, t) ==
    IF counter.count >= cfg.limit
    THEN [ok |-> FALSE, counter |-> counter]
    ELSE [ok |-> TRUE, counter |-> [counter EXCEPT !.count = @ + 1]]

\* the locked section of FixedWindow.Allow at time t
fwDecide(cfg, counter, t) ==
    LET currentWindow == Truncate(t, cfg.window)
        c == IF currentWindow > counter.window
             THEN [counter EXCEPT !.count = 0, !.window = currentWindow]
             ELSE counter
    IN IF c.count >= cfg.limit
       THEN [ok |-> FALSE, counter |-> c]
       ELSE [ok |-> TRUE, counter |-> [c EXCEPT !.count = @ + 1]]

\* number of entries of h in the aligned window that starts at w
CountAligned(h, w, d) == Cardinality({i \in DOMAIN h : Truncate(h[i], d) = w})

InitFixedWindow ==
    /\ now = 0
    /\ fwCfg \in WindowConfigs
    /\ fwCounters = [k \in Keys |-> NoCounter]
    /\ fwProc = [p \in Procs |-> IdleProc]
    /\ fwHist = [k \in Keys |-> <<>>]
    /\ fwLast = [k \in Keys |-> NoDecision]
    /\ fwCalls = 0
    /\ cbIdle /\ gwIdle /\ tbIdle /\ swIdle /\ drlIdle
    /\ rlIdle /\ balIdle
    /\ ppIdle /\ cfIdle /\ amIdle

\* FixedWindow.Allow(key), first critical section (fw.mu): find or create
\* the key's counter, created for the window of the current time
FixedWindow_Allow_lookup(p, k) ==
    /\ fwProc[p].pc = "idle"
    /\ fwCalls < MaxAllowCalls
    /\ fwCalls' = fwCalls + 1
    /\ fwCounters' = [fwCounters EXCEPT ![k] =
                         IF @.exists THEN @
                         ELSE [exists |-> TRUE, count |-> 0,
                               window |-> Truncate(now, fwCfg.window)]]
    /\ fwProc' = [fwProc EXCEPT ![p] = [pc |-> "counter", key |-> k]]
    /\ UNCHANGED <<now, fwCfg, fwHist, fwLast>>
    /\ UNCHANGED <<cbVars, gwVars, tbVars, swVars, drlVars,
                   rlVars, balVars,
                   ppVars, cfVars, amVars>>

\* FixedWindow.Allow(key), second critical section (counter.mu): read the
\* clock, reset on a new window, decide, count
FixedWindow_Allow_decide(p) ==
    /\ fwProc[p].pc = "counter"
    /\ LET k == fwProc[p].key
           r == fwDecide(fwCfg, fwCounters[k], now)
       IN /\ fwCounters' = [fwCounters EXCEPT ![k] = r.counter]
          /\ fwHist' = [fwHist EXCEPT ![k] =
                           IF r.ok THEN Append(@, now) ELSE @]
          /\ fwLast' = [fwLast EXCEPT ![k] =
                           [valid |-> TRUE, at |-> now, allowed |-> r.ok,
                            seen |-> CountAligned(fwHist[k],
                                        Truncate(now, fwCfg.window),
                                        fwCfg.window)]]
    /\ fwProc' = [fwProc EXCEPT ![p] = IdleProc]
    /\ UNCHANGED <<now, fwCfg, fwCalls>>
    /\ UNCHANGED <<cbVars, gwVars, tbVars, swVars, drlVars,
                   rlVars, balVars,
                   ppVars, cfVars, amVars>>

NextFixedWindow ==
    \/ \E p \in Procs, k \in Keys : FixedWindow_Allow_lookup(p, k)
    \/ \E p \in Procs : FixedWindow_Allow_decide(p)
    \/ Tick

SpecFixedWindow == InitFixedWindow /\ [][NextFixedWindow]_vars

\* C8: at most L calls are allowed inside one aligned window [kW, (k+1)W);
\* the first call in a later window decides on a count reset to zero (it is
\* allowed iff fewer than L calls were allowed in its own window); hence at
\* most 2L calls are allowed in any interval of length W.
C8_FixedWindowBounds ==
    \A k \in Keys :
        /\ \A t \in 0..MaxTime :
              CountAligned(fwHist[k], Truncate(t, fwCfg.window), fwCfg.window)
                 <= fwCfg.limit
        /\ fwLast[k].valid =>
              /\ fwLast[k].allowed <=> fwLast[k].seen < fwCfg.limit
              /\ fwCounters[k].window = Truncate(fwLast[k].at, fwCfg.window)
              /\ fwCounters[k].count
                    = fwLast[k].seen + (IF fwLast[k].allowed THEN 1 ELSE 0)
        /\ \A t \in 0..MaxTime :
              CountIn(fwHist[k], t, fwCfg.window + 1) <= 2 * fwCfg.limit

\* a boundary burst: 2L allowed calls inside an interval of length W, the
\* later L of them after the count was reset for a new window
C8_Witness ==
    \E k \in Keys : \E t \in 0..MaxTime :
        /\ fwCfg.limit = 2
        /\ CountIn(fwHist[k], t, fwCfg.window) = 2 * fwCfg.limit
        /\ fwLast[k].valid /\ fwLast[k].allowed
        /\ fwCounters[k].window > 0

\* =========================================================================
\* Rate limiting: DistributedRateLimit (atomic script on the shared store)
\* =========================================================================

\* the factor the script applies to its window argument: the cutoff is
\* now - window * 1000, and EXPIRE takes the same argument as seconds
ScriptWindowFactor == 1000

NoCall == [pc |-> "idle", key |-> "k1", now |-> 0]

\* the Lua script, run atomically by the store on the key's ordered set
\* (member = score = the caller's now_ms): ZREMRANGEBYSCORE -inf..cutoff,
\* ZCARD, and below the limit ZADD now now and EXPIRE
scriptRun(cfg, members, t) ==
    LET windowMs == cfg.window
        kept     == {m \in members : m > t - windowMs * ScriptWindowFactor}
        current  == Cardinality(kept)
    IN IF current < cfg.limit
       THEN [allowed |-> TRUE, members |-> kept \cup {t}, expire |-> TRUE,
             remaining |-> cfg.limit - current - 1]
       ELSE [allowed |-> FALSE, members |-> kept, expire |-> FALSE,
             remaining |-> 0]

\* the members of a key as the store sees them at time t (an expired key
\* is gone)
liveMembers(k, t) ==
    IF zexpire[k] # ZeroTime /\ t >= zexpire[k] THEN {} ELSE zset[k]

InitDistributed ==
    /\ now = 0
    /\ drlCfg \in WindowConfigs
    /\ zset = [k \in Keys |-> {}]
    /\ zexpire = [k \in Keys |-> ZeroTime]
    /\ drlProc = [p \in Procs |-> NoCall]
    /\ drlHist = [k \in Keys |-> <<>>]
    /\ drlCount = 0
    /\ cbIdle /\ gwIdle /\ tbIdle /\ swIdle /\ fwIdle
    /\ rlIdle /\ balIdle
    /\ ppIdle /\ cfIdle /\ amIdle

\* DistributedRateLimit.Allow(key): read the clock, send the script
DistributedRateLimit_Allow_send(p, k) ==
    /\ drlProc[p].pc = "idle"
    /\ drlCount < MaxStoreCalls
    /\ drlCount' = drlCount + 1
    /\ drlProc' = [drlProc EXCEPT ![p] =
                     [pc |-> "sent", key |-> k, now |-> now]]
    /\ UNCHANGED <<now, drlCfg, zset, zexpire, drlHist>>
    /\ UNCHANGED <<cbVars, gwVars, tbVars, swVars, fwVars,
                   rlVars, balVars,
                   ppVars, cfVars, amVars>>

\* the store runs the script; Allow returns its first result
DistributedRateLimit_Allow_run(p) ==
    /\ drlProc[p].pc = "sent"
    /\ LET k == drlProc[p].key
           r == scriptRun(drlCfg, liveMembers(k, now), drlProc[p].now)
       IN /\ zset' = [zset EXCEPT ![k] = r.members]
          /\ zexpire' = [zexpire EXCEPT ![k] =
                            IF r.expire
                            THEN now + drlCfg.window * ScriptWindowFactor
                            ELSE IF liveMembers(k, now) = {} THEN ZeroTime
                            ELSE @]
          /\ drlHist' = [drlHist EXCEPT ![k] =
                            Append(@, [at |-> now, ts |-> drlProc[p].now,
                                       allowed |-> r.allowed])]
    /\ drlProc' = [drlProc EXCEPT ![p] = NoCall]
    /\ UNCHANGED <<now, drlCfg, drlCount>>
    /\ UNCHANGED <<cbVars, gwVars, tbVars, swVars, fwVars,
                   rlVars, balVars,
                   ppVars, cfVars, amVars>>

\* the store call fails: Allow returns (false, error), nothing is evaluated
DistributedRateLimit_Allow_error(p) ==
    /\ drlProc[p].pc = "sent"
    /\ drlProc' = [drlProc EXCEPT ![p] = NoCall]
    /\ UNCHANGED <<now, drlCfg, zset, zexpire, drlHist, drlCount>>
    /\ UNCHANGED <<cbVars, gwVars, tbVars, swVars, fwVars,
                   rlVars, balVars,
                   ppVars, cfVars, amVars>>

\* time passes: a millisecond, or a whole script horizon (1000 windows of a
\* 1 ms window)
Elapse(d) ==
    /\ d = 1 => (now % ScriptWindowFactor) < MaxMs
    /\ d # 1 => now + d <= MaxHorizons * ScriptWindowFactor + MaxMs
    /\ now' = now + d
    /\ UNCHANGED <<cbVars, gwVars, tbVars, swVars, fwVars, drlVars,
                   rlVars, balVars,
                   ppVars, cfVars, amVars>>

NextDistributed ==
    \/ \E p \in Procs, k \in Keys : DistributedRateLimit_Allow_send(p, k)
    \/ \E p \in Procs : DistributedRateLimit_Allow_run(p)
    \/ \E p \in Procs : DistributedRateLimit_Allow_error(p)
    \/ \E d \in {1, ScriptWindowFactor} : Elapse(d)

SpecDistributed == InitDistributed /\ [][NextDistributed]_vars

\* C9: for every key, among the requests the script evaluates in any
\* interval of length W at most L are allowed, also when several requests
\* carry the same millisecond timestamp (counted here: the requests that
\* are evaluated in the millisecond they were stamped with).
C9_DistributedWindowBound ==
    \A k \in Keys : \A i \in DOMAIN drlHist[k] :
        Cardinality({j \in DOMAIN drlHist[k] :
                        /\ drlHist[k][j].allowed
                        /\ drlHist[k][j].at = drlHist[k][j].ts
                        /\ drlHist[k][i].ts <= drlHist[k][j].ts
                        /\ drlHist[k][j].ts < drlHist[k][i].ts + drlCfg.window})
            <= drlCfg.limit

\* C10: entries older than W are trimmed (cutoff = now - W), so a key at
\* its limit is allowed again once W has elapsed since its oldest counted
\* request: a request is denied only if L allowed requests of the key are
\* no older than W, and no member older than W survives a script run.
C10_TrimAfterWindow ==
    \A k \in Keys : \A i \in DOMAIN drlHist[k] :
        /\ ~drlHist[k][i].allowed
           => Cardinality({j \in 1..(i - 1) :
                             /\ drlHist[k][j].allowed
                             /\ drlHist[k][j].ts
                                   >= drlHist[k][i].ts - drlCfg.window})
                 >= drlCfg.limit
        /\ i = Len(drlHist[k])
           => \A m \in zset[k] : m >= drlHist[k][i].ts - drlCfg.window


\* =========================================================================
\* Rate limiting: ratelimit.Manager behind the RateLimit middleware
\* =========================================================================

\* user ids carried by validated tokens (auth.Claims.UserID); one of them is
\* spelled like an address
Subjects == {"alice", "10.0.0.1"}

\* client addresses (gin.Context.ClientIP())
Addrs == {"10.0.0.1", "10.0.0.2"}

ServiceIDs == {"u"}

\* values of an API key header
ApiKeys == {"key1"}

DefaultRule == [Requests |-> 1, Window |-> 1, Burst |-> 1]
UserRule == [Requests |-> 2, Window |-> 2, Burst |-> 2]
ServiceRule == [Requests |-> 2, Window |-> 1, Burst |-> 1]
NoRule == [Requests |-> 0, Window |-> 0, Burst |-> 0]

\* values of RateLimitConfig.Algorithm, one of them unrecognised
AlgorithmNames == {"token_bucket", "sliding_window", "fixed_window",
                   "distributed", "leaky_bucket"}

\* configurations: PerUser has a rule for alice, PerService for u; Redis
\* tells whether initRedis returned a client (it only matters to the
\* distributed algorithm)
RLConfigs ==
    {c \in [Enabled : BOOLEAN, Algorithm : AlgorithmNames, Redis : BOOLEAN,
            Default : {DefaultRule},
            PerUser : {[u \in {"alice"} |-> UserRule]},
            PerService : {[v \in ServiceIDs |-> ServiceRule]}] :
        /\ c.Algorithm # "distributed" => c.Redis
        /\ ~c.Enabled => c.Algorithm = "token_bucket"}

\* fmt.Sprintf("user:%s", userID) and its siblings
userKey(id) == "user:" \o id
serviceKey(id) == "service:" \o id
ipKey(ip) == "ip:" \o ip
apiKeyKey(k) == "apikey:" \o k

\* every key a check can be made with
RLKeys == Subjects \cup Addrs \cup {userKey(u) : u \in Subjects}
             \cup {serviceKey(v) : v \in ServiceIDs}
             \cup {ipKey(a) : a \in Addrs}

\* the first switch of initializeAlgorithms: what serves "default"
defaultKind(cfg) ==
    CASE cfg.Algorithm = "token_bucket" -> "token_bucket"
      [] cfg.Algorithm = "sliding_window" -> "sliding_window"
      [] cfg.Algorithm = "fixed_window" -> "fixed_window"
      [] cfg.Algorithm = "distributed" ->
            IF cfg.Redis THEN "distributed" ELSE "token_bucket"
      [] OTHER -> "token_bucket"

\* the switches of the per-user and per-service loops: they have no default
\* branch and no fallback without a store client
scopedKind(cfg) ==
    CASE cfg.Algorithm = "token_bucket" -> "token_bucket"
      [] cfg.Algorithm = "sliding_window" -> "sliding_window"
      [] cfg.Algorithm = "fixed_window" -> "fixed_window"
      [] cfg.Algorithm = "distributed" ->
            IF cfg.Redis THEN "distributed" ELSE None
      [] OTHER -> None

\* Manager.initializeAlgorithms: the algorithms map
initializeAlgorithms(cfg) ==
    LET users    == {userKey(u) : u \in DOMAIN cfg.PerUser}
        services == {serviceKey(v) : v \in DOMAIN cfg.PerService}
        scoped   == IF scopedKind(cfg) = None THEN {}
                    ELSE users \cup services
    IN [n \in {"default"} \cup scoped |->
          IF n = "default"
          THEN [kind |-> defaultKind(cfg), rule |-> cfg.Default]
          ELSE IF n \in users
          THEN [kind |-> scopedKind(cfg),
                rule |-> cfg.PerUser[CHOOSE u \in DOMAIN cfg.PerUser :
                                        userKey(u) = n]]
          ELSE [kind |-> scopedKind(cfg),
                rule |-> cfg.PerService[CHOOSE v \in DOMAIN cfg.PerService :
                                           serviceKey(v) = n]]]

\* NewManager: algorithms are only built when rate limiting is enabled
NewManager(cfg) ==
    IF cfg.Enabled THEN initializeAlgorithms(cfg) ELSE [n \in {} |-> 0]

\* milliseconds per clock tick (time.Now().UnixMilli())
MsPerTick == 1000 \div TicksPerSec

\* the per-key state an algorithm instance starts from
InitState(kind) ==
    CASE kind = "token_bucket" -> NoLimiter
      [] kind = "sliding_window" -> NoWindow
      [] kind = "fixed_window" -> NoCounter
      [] OTHER -> {}

\* Algorithm.Allow(key) of an instance on the key's state st at time t;
\* fail: the store call of the distributed algorithm returns an error
algAllow(inst, st, t, fail) ==
    CASE inst.kind = "token_bucket" ->
            LET tb  == NewTokenBucket(inst.rule)
                lim == IF st = NoLimiter THEN NewLimiter(tb, t) ELSE st
                r   == reserveN(tb, lim, t)
            IN [allowed |-> r.ok, err |-> FALSE, st |-> r.lim]
      [] inst.kind = "sliding_window" ->
            LET r == swDecide([limit |-> inst.rule.Requests,
                               window |-> inst.rule.Window * TicksPerSec],
                              st.requests, t)
            IN [allowed |-> r.ok, err |-> FALSE,
                st |-> [exists |-> TRUE, requests |-> r.requests]]
      [] inst.kind = "fixed_window" ->
            LET cfg == [limit |-> inst.rule.Requests,
                        window |-> inst.rule.Window * TicksPerSec]
                c   == IF st.exists THEN st
                       ELSE [exists |-> TRUE, count |-> 0,
                             window |-> Truncate(t, cfg.window)]
                r   == fwDecide(cfg, c, t)
            IN [allowed |-> r.ok, err |-> FALSE, st |-> r.counter]
      [] OTHER ->
            IF fail THEN [allowed |-> FALSE, err |-> TRUE, st |-> st]
            ELSE LET r == scriptRun([limit |-> inst.rule.Requests,
                                     window |-> inst.rule.Window * 1000],
                                    st, t * MsPerTick)
                 IN [allowed |-> r.allowed, err |-> FALSE,
                     st |-> r.members]

limiterKey_oneForAll(key) == "10.0.0.1"

\* the key an algorithm files a caller's state under (tb.limiters[key],
\* sw.windows[key], fw.counters[key], KEYS[1])
limiterKey(key) == key

\* Manager.CheckLimit: the instance that decides for a key, None when rate
\* limiting is disabled or no algorithm is available
instanceFor(key) ==
    IF ~rlCfg.Enabled THEN None
    ELSE IF key \in DOMAIN rlAlgorithms THEN key
    ELSE IF "default" \in DOMAIN rlAlgorithms THEN "default"
    ELSE None

\* Manager.CheckLimit(key): decision, error, and the instance's new state
CheckLimit(key, fail) ==
    LET n == instanceFor(key) IN
    IF n = None
    THEN [allowed |-> TRUE, err |-> FALSE, inst |-> None, rule |-> NoRule,
          state |-> rlState, own |-> rlOwn, ownAllowed |-> TRUE]
    ELSE LET inst == rlAlgorithms[n]
             r    == algAllow(inst, rlState[n][limiterKey(key)], now, fail)
             o    == algAllow(inst, rlOwn[n][key], now, fail)
         IN [allowed |-> r.allowed, err |-> r.err, inst |-> n,
             rule |-> inst.rule,
             state |-> [rlState EXCEPT ![n][limiterKey(key)] = r.st],
             own |-> [rlOwn EXCEPT ![n][key] = o.st],
             ownAllowed |-> o.allowed]

\* the store can only fail a check that goes to the store
MayFail(key, fail) ==
    fail => /\ instanceFor(key) # None
            /\ rlAlgorithms[instanceFor(key)].kind = "distributed"

StatusNext == 0
StatusTooManyRequests == 429
StatusInternalServerError == 500

\* the literal header values of the RateLimit middleware
HeaderRateLimitLimit == 100
HeaderRetryAfter == 60

NoCheck ==
    [valid |-> FALSE, op |-> None, scope |-> None, id |-> None,
     key |-> None, inst |-> None, rule |-> NoRule, allowed |-> FALSE,
     err |-> FALSE, ownAllowed |-> FALSE, status |-> StatusNext,
     limitHdr |-> 0, retryAfter |-> 0, calls |-> 0]

\* what a direct call of the manager leaves in rlLast
Checked(op, scope, id, key, r) ==
    [valid |-> TRUE, op |-> op, scope |-> scope, id |-> id, key |-> key,
     inst |-> r.inst, rule |-> r.rule, allowed |-> r.allowed,
     err |-> r.err, ownAllowed |-> r.ownAllowed, status |-> StatusNext,
     limitHdr |-> 0, retryAfter |-> 0, calls |-> rlCalls + 1]

InitManager ==
    /\ now = 0
    /\ rlCfg \in RLConfigs
    /\ rlAlgorithms = NewManager(rlCfg)
    /\ rlState = [n \in DOMAIN rlAlgorithms |->
                    [k \in RLKeys |-> InitState(rlAlgorithms[n].kind)]]
    /\ rlOwn = rlState
    /\ rlLast = NoCheck
    /\ rlSeen = {}
    /\ rlDenied = {}
    /\ rlCalls = 0
    /\ cbIdle /\ gwIdle /\ tbIdle /\ swIdle /\ fwIdle /\ drlIdle /\ balIdle
    /\ ppIdle /\ cfIdle /\ amIdle

\* the scope a request belongs to: a known identity, else an API key
\* header, else the client address
scopeOf(req) ==
    IF req.user # "" THEN "identity"
    ELSE IF req.apiKey # "" THEN "apikey"
    ELSE "ip"

\* requests reaching the middleware: user is "" without validated claims
Requests ==
    {q \in [user : Subjects \cup {""}, apiKey : ApiKeys \cup {""},
            ip : Addrs] :
        /\ q.user # "" => (q.apiKey = "" /\ q.ip = "10.0.0.2")
        /\ q.apiKey # "" => q.ip = "10.0.0.2"}

\* the key the RateLimit middleware derives: the user id if there are
\* claims, else the client address
middlewareKey(req) == IF req.user # "" THEN req.user ELSE req.ip

\* the RateLimit middleware handler
RateLimit(req, fail) ==
    /\ rlCalls < MaxLimitCalls
    /\ LET key == middlewareKey(req)
           r   == CheckLimit(key, fail)
       IN /\ MayFail(key, fail)
          /\ rlState' = r.state
          /\ rlOwn' = r.own
          /\ rlLast' = [Checked("RateLimit", scopeOf(req),
                                IF req.user # "" THEN req.user
                                ELSE IF req.apiKey # "" THEN req.apiKey
                                ELSE req.ip, key, r)
                          EXCEPT !.status =
                                    IF r.err THEN StatusInternalServerError
                                    ELSE IF ~r.allowed
                                    THEN StatusTooManyRequests
                                    ELSE StatusNext,
                                 !.limitHdr =
                                    IF ~r.err /\ ~r.allowed
                                    THEN HeaderRateLimitLimit ELSE 0,
                                 !.retryAfter =
                                    IF ~r.err /\ ~r.allowed
                                    THEN HeaderRetryAfter ELSE 0]
          /\ rlSeen' = rlSeen \cup {[scope |-> scopeOf(req), key |-> key]}
          /\ rlDenied' = IF ~r.err /\ ~r.allowed
                         THEN rlDenied \cup {key} ELSE rlDenied
    /\ rlCalls' = rlCalls + 1
    /\ UNCHANGED <<now, rlCfg, rlAlgorithms>>
    /\ UNCHANGED <<cbVars, gwVars, tbVars, swVars, fwVars, drlVars, balVars, ppVars, cfVars, amVars>>

\* Manager.CheckUserLimit(userID)
CheckUserLimit(id, fail) ==
    /\ rlCalls < MaxLimitCalls
    /\ LET key == userKey(id)
           r   == CheckLimit(key, fail)
       IN /\ MayFail(key, fail)
          /\ rlState' = r.state
          /\ rlOwn' = r.own
          /\ rlLast' = Checked("CheckUserLimit", "identity", id, key, r)
          /\ rlDenied' = IF ~r.err /\ ~r.allowed
                         THEN rlDenied \cup {key} ELSE rlDenied
    /\ rlCalls' = rlCalls + 1
    /\ UNCHANGED <<now, rlCfg, rlAlgorithms, rlSeen>>
    /\ UNCHANGED <<cbVars, gwVars, tbVars, swVars, fwVars, drlVars, balVars, ppVars, cfVars, amVars>>

\* Manager.CheckServiceLimit(serviceID)
CheckServiceLimit(id, fail) ==
    /\ rlCalls < MaxLimitCalls
    /\ LET key == serviceKey(id)
           r   == CheckLimit(key, fail)
       IN /\ MayFail(key, fail)
          /\ rlState' = r.state
          /\ rlOwn' = r.own
          /\ rlLast' = Checked("CheckServiceLimit", "service", id, key, r)
          /\ rlDenied' = IF ~r.err /\ ~r.allowed
                         THEN rlDenied \cup {key} ELSE rlDenied
    /\ rlCalls' = rlCalls + 1
    /\ UNCHANGED <<now, rlCfg, rlAlgorithms, rlSeen>>
    /\ UNCHANGED <<cbVars, gwVars, tbVars, swVars, fwVars, drlVars, balVars, ppVars, cfVars, amVars>>

\* Manager.CheckIPLimit(ip)
CheckIPLimit(ip, fail) ==
    /\ rlCalls < MaxLimitCalls
    /\ LET key == ipKey(ip)
           r   == CheckLimit(key, fail)
       IN /\ MayFail(key, fail)
          /\ rlState' = r.state
          /\ rlOwn' = r.own
          /\ rlLast' = Checked("CheckIPLimit", "ip", ip, key, r)
          /\ rlDenied' = IF ~r.err /\ ~r.allowed
                         THEN rlDenied \cup {key} ELSE rlDenied
    /\ rlCalls' = rlCalls + 1
    /\ UNCHANGED <<now, rlCfg, rlAlgorithms, rlSeen>>
    /\ UNCHANGED <<cbVars, gwVars, tbVars, swVars, fwVars, drlVars, balVars, ppVars, cfVars, amVars>>

\* the clock advances between checks
ManagerTick ==
    /\ now < MaxLimitTime
    /\ now' = now + 1
    /\ UNCHANGED <<cbVars, gwVars, tbVars, swVars, fwVars, drlVars, rlVars,
                   balVars,
                   ppVars, cfVars, amVars>>

NextManager ==
    \/ \E req \in Requests, fail \in BOOLEAN : RateLimit(req, fail)
    \/ \E id \in Subjects, fail \in BOOLEAN : CheckUserLimit(id, fail)
    \/ \E id \in ServiceIDs, fail \in BOOLEAN : CheckServiceLimit(id, fail)
    \/ \E ip \in Addrs, fail \in BOOLEAN : CheckIPLimit(ip, fail)
    \/ ManagerTick

SpecManager == InitManager /\ [][NextManager]_vars


\* the cap of the local emergency limiter, as a multiple of the rule's limit
EmergencyFactor == 10

\* C11: when the store call of the distributed limiter fails, the request
\* is not rejected because of that: (fail-open being the default) it is
\* decided by a local emergency limiter capped at 10 times the limit, so a
\* key that has made no more checks than that cap is passed on.
C11_StoreFailureFailsOpen ==
    (/\ rlLast.valid
     /\ rlLast.op = "RateLimit"
     /\ rlLast.err
     /\ rlLast.calls <= EmergencyFactor * rlLast.rule.Requests)
    => rlLast.status = StatusNext

\* the longest a limiter built from a rule can need until it allows again,
\* in whole seconds: one token period of a bucket refilled at Requests per
\* second, the window of a window limiter
ResetAfterBound(kind, rule) ==
    IF kind = "token_bucket" THEN 1 ELSE rule.Window

\* C12: a denied request is answered 429 with a Retry-After that is the
\* number of seconds of the limiter's reset_after for the rule in force and
\* an X-RateLimit-Limit equal to that rule's limit.
C12_DeniedResponseHeaders ==
    (rlLast.valid /\ rlLast.op = "RateLimit" /\ ~rlLast.err
        /\ ~rlLast.allowed)
    => /\ rlLast.status = StatusTooManyRequests
       /\ rlLast.retryAfter
             \in 1..ResetAfterBound(rlAlgorithms[rlLast.inst].kind,
                                    rlLast.rule)
       /\ rlLast.limitHdr = rlLast.rule.Requests

\* the digest an API key is filed under
ApiKeyHash(k) == "sha256(" \o k \o ")"

\* the key of a scope and subject, each scope in its own namespace
ScopedKey(scope, id) ==
    CASE scope = "identity" -> "identity:" \o id
      [] scope = "apikey" -> "apikey:" \o ApiKeyHash(id)
      [] OTHER -> "ip:" \o id

\* C13: the key of a request is identity:<subject> for a known identity,
\* else apikey:<hash> with an API key header, else ip:<address>; keys of
\* different scopes never coincide, so an identity spelled like an address
\* does not share limiter state with that address.
C13_KeyNamespaces ==
    /\ (rlLast.valid /\ rlLast.op = "RateLimit")
          => rlLast.key = ScopedKey(rlLast.scope, rlLast.id)
    /\ \A a, b \in rlSeen : a.scope # b.scope => a.key # b.key

\* the rule that is to limit a subject of a scope: its identity-scoped
\* rule, else its service-scoped rule, else the default rule
RuleInForce(scope, id) ==
    IF scope = "identity" /\ id \in DOMAIN rlCfg.PerUser
    THEN rlCfg.PerUser[id]
    ELSE IF scope = "service" /\ id \in DOMAIN rlCfg.PerService
    THEN rlCfg.PerService[id]
    ELSE rlCfg.Default

\* C14: for every algorithm value (the four names, distributed without a
\* store client, an unrecognised name) a check made for a user that has a
\* PerUser rule is decided by that rule, one for a service with a
\* PerService rule by that rule, any other by the default rule.
C14_RuleResolution ==
    (/\ rlLast.valid
     /\ rlCfg.Enabled
     /\ rlLast.op \in {"CheckUserLimit", "CheckServiceLimit",
                       "CheckIPLimit"})
    => rlLast.rule = RuleInForce(rlLast.scope, rlLast.id)

\* the keys the configuration has a dedicated rule for
DedicatedKeys ==
    {userKey(u) : u \in DOMAIN rlCfg.PerUser}
       \cup {serviceKey(v) : v \in DOMAIN rlCfg.PerService}

Endpoints == <<"a", "b", "c">>

Policies == {"round_robin", "weighted_round_robin", "random",
             "least_connections"}

\* the number of rounds in the windows a fair rotation is measured over
RoundsPerWindow == 10

\* sum of the first n entries of a sequence of numbers
RECURSIVE SumTo(_, _)
SumTo(w, n) == IF n = 0 THEN 0 ELSE w[n] + SumTo(w, n - 1)

\* NewWeightedRoundRobin: a weight that is missing or not positive is 1
weightOf(weights, i) ==
    IF i <= Len(weights) /\ weights[i] > 0 THEN weights[i] ELSE 1

\* the constructors: NewRoundRobin, NewWeightedRoundRobin, NewRandom,
\* NewLeastConnections start from a zero counter, zero current weights,
\* zero connections and every target healthy
NewBalancer(targets) ==
    [current |-> 0,
     cw      |-> [i \in 1..Len(targets) |-> 0],
     conns   |-> [i \in 1..Len(targets) |-> 0],
     healthy |-> [i \in 1..Len(targets) |-> TRUE]]

rrSelect_stride(targets, st) ==
    IF Len(targets) = 0 THEN [st |-> st, index |-> 0]
    ELSE LET c == st.current + 1 IN
         [st |-> [st EXCEPT !.current = c],
          index |-> ((2 * c) % Len(targets)) + 1]

\* RoundRobin.NextTarget: atomic.AddUint64(&current, 1) % len(targets); the
\* result indexes the list from 0 (index 0 here stands for nil).  The
\* counter stays far below 2^64 for the numbers of selections considered.
rrSelect(targets, st) ==
    IF Len(targets) = 0 THEN [st |-> st, index |-> 0]
    ELSE LET c == st.current + 1 IN
         [st |-> [st EXCEPT !.current = c],
          index |-> (c % Len(targets)) + 1]

wrrSelect_keepsWeight(targets, weights, st) ==
    IF Len(targets) = 0 THEN [st |-> st, index |-> 0]
    ELSE LET cw1 == [i \in 1..Len(targets) |-> st.cw[i] + weights[i]]
             sel == CHOOSE i \in 1..Len(targets) :
                       \A j \in 1..Len(targets) :
                          \/ cw1[i] > cw1[j]
                          \/ (cw1[i] = cw1[j] /\ i <= j)
         IN [st |-> [st EXCEPT !.cw = cw1], index |-> sel]

\* WeightedRoundRobin.NextTarget: add each weight to its current weight,
\* select the first target of maximal current weight, subtract the total
wrrSelect(targets, weights, st) ==
    IF Len(targets) = 0 THEN [st |-> st, index |-> 0]
    ELSE LET total == SumTo(weights, Len(targets))
             cw1   == [i \in 1..Len(targets) |-> st.cw[i] + weights[i]]
             sel   == CHOOSE i \in 1..Len(targets) :
                         \A j \in 1..Len(targets) :
                            \/ cw1[i] > cw1[j]
                            \/ (cw1[i] = cw1[j] /\ i <= j)
         IN [st |-> [st EXCEPT !.cw = [cw1 EXCEPT ![sel] = @ - total]],
             index |-> sel]

lcSelect_anyTarget(targets, st) ==
    IF Len(targets) = 0 THEN 0
    ELSE CHOOSE i \in 1..Len(targets) :
            \A j \in 1..Len(targets) :
               \/ st.conns[i] < st.conns[j]
               \/ (st.conns[i] = st.conns[j] /\ i <= j)

\* the loop of LeastConnections.NextTarget: the first healthy target of
\* minimal connection count, 0 (nil) when there is none
lcSelect(targets, st) ==
    LET H == {i \in 1..Len(targets) : st.healthy[i]} IN
    IF H = {} THEN 0
    ELSE CHOOSE i \in H :
            \A j \in H : \/ st.conns[i] < st.conns[j]
                         \/ (st.conns[i] = st.conns[j] /\ i <= j)

\* the URL at an index, None for nil
urlAt(targets, i) == IF i = 0 THEN None ELSE targets[i]

\* index of a URL in the target list (the String() comparison loops)
indexOf(targets, e) == CHOOSE i \in 1..Len(targets) : targets[i] = e

\* does the balancer of a policy implement loadbalancer.HealthChecker
IsHealthChecker(policy) == policy = "least_connections"

\* how many selections are followed for a balancer
PickBound ==
    CASE balPolicy = "round_robin" ->
            RoundsPerWindow * Len(balTargets) + MaxPicks
      [] balPolicy = "weighted_round_robin" ->
            2 * SumTo(balWeights, Len(balTargets)) + MaxPicks
      [] OTHER -> MaxPicks

NoPick == [op |-> None, target |-> None, marked |-> {}]

IdlePick == [pc |-> "idle", sel |-> 0]

InitBalancer ==
    /\ now = 0
    /\ balPolicy \in Policies
    /\ \E n \in 1..MaxTargets : balTargets = SubSeq(Endpoints, 1, n)
    /\ balWeights \in [1..Len(balTargets) -> 1..MaxWeight]
    /\ balPolicy # "weighted_round_robin"
          => balWeights = [i \in 1..Len(balTargets) |-> 1]
    /\ balState = NewBalancer(balTargets)
    /\ balProc = [p \in Procs |-> IdlePick]
    /\ balPicks = <<>>
    /\ balMarked = {}
    /\ balFrozen = [i \in 1..Len(balTargets) |->
                      [count |-> 0, released |-> FALSE]]
    /\ balLast = NoPick
    /\ cbIdle /\ gwIdle /\ tbIdle /\ swIdle /\ fwIdle /\ drlIdle /\ rlIdle
    /\ ppIdle /\ cfIdle /\ amIdle

\* RoundRobin.NextTarget
RoundRobin_NextTarget ==
    /\ balPolicy = "round_robin"
    /\ Len(balPicks) < PickBound
    /\ LET r == rrSelect(balTargets, balState)
       IN /\ balState' = r.st
          /\ balPicks' = Append(balPicks, urlAt(balTargets, r.index))
          /\ balLast' = [op |-> "NextTarget",
                         target |-> urlAt(balTargets, r.index),
                         marked |-> balMarked]
    /\ UNCHANGED <<now, balPolicy, balTargets, balWeights, balProc,
                   balMarked, balFrozen>>
    /\ UNCHANGED <<cbVars, gwVars, tbVars, swVars, fwVars, drlVars, rlVars, ppVars, cfVars, amVars>>

\* WeightedRoundRobin.NextTarget, entirely under wrr.mu
WeightedRoundRobin_NextTarget ==
    /\ balPolicy = "weighted_round_robin"
    /\ Len(balPicks) < PickBound
    /\ LET w == [i \in 1..Len(balTargets) |-> weightOf(balWeights, i)]
           r == wrrSelect(balTargets, w, balState)
       IN /\ balState' = r.st
          /\ balPicks' = Append(balPicks, urlAt(balTargets, r.index))
          /\ balLast' = [op |-> "NextTarget",
                         target |-> urlAt(balTargets, r.index),
                         marked |-> balMarked]
    /\ UNCHANGED <<now, balPolicy, balTargets, balWeights, balProc,
                   balMarked, balFrozen>>
    /\ UNCHANGED <<cbVars, gwVars, tbVars, swVars, fwVars, drlVars, rlVars, ppVars, cfVars, amVars>>

\* Random.NextTarget: rand.Intn(len(targets)) yields index i
Random_NextTarget(i) ==
    /\ balPolicy = "random"
    /\ Len(balPicks) < PickBound
    /\ i \in 1..Len(balTargets)
    /\ balPicks' = Append(balPicks, urlAt(balTargets, i))
    /\ balLast' = [op |-> "NextTarget", target |-> urlAt(balTargets, i),
                   marked |-> balMarked]
    /\ UNCHANGED <<now, balPolicy, balTargets, balWeights, balState,
                   balProc, balMarked, balFrozen>>
    /\ UNCHANGED <<cbVars, gwVars, tbVars, swVars, fwVars, drlVars, rlVars, ppVars, cfVars, amVars>>

\* LeastConnections.NextTarget, the selection loop (under lc.mu.RLock, which
\* other readers share)
LeastConnections_NextTarget_select(p) ==
    /\ balPolicy = "least_connections"
    /\ balProc[p].pc = "idle"
    /\ Len(balPicks) < PickBound
    /\ LET sel == lcSelect(balTargets, balState)
       IN /\ balProc' = [balProc EXCEPT ![p] =
                           IF sel = 0 THEN IdlePick
                           ELSE [pc |-> "selected", sel |-> sel]]
          /\ balPicks' = Append(balPicks, urlAt(balTargets, sel))
          /\ balLast' = [op |-> "NextTarget",
                         target |-> urlAt(balTargets, sel),
                         marked |-> balMarked]
    /\ UNCHANGED <<now, balPolicy, balTargets, balWeights, balState,
                   balMarked, balFrozen>>
    /\ UNCHANGED <<cbVars, gwVars, tbVars, swVars, fwVars, drlVars, rlVars, ppVars, cfVars, amVars>>

\* LeastConnections.NextTarget, atomic.AddInt64(&selected.Connections, 1)
\* and return (still under the read lock)
LeastConnections_NextTarget_add(p) ==
    /\ balProc[p].pc = "selected"
    /\ balState' = [balState EXCEPT !.conns[balProc[p].sel] = @ + 1]
    /\ balProc' = [balProc EXCEPT ![p] = IdlePick]
    /\ UNCHANGED <<now, balPolicy, balTargets, balWeights, balPicks,
                   balMarked, balFrozen, balLast>>
    /\ UNCHANGED <<cbVars, gwVars, tbVars, swVars, fwVars, drlVars, rlVars, ppVars, cfVars, amVars>>

\* no caller holds the read lock of the balancer
Unlocked == \A p \in Procs : balProc[p].pc = "idle"

\* ReverseProxy.handleProxyError for a target that was selected: the
\* forwarder marks it unhealthy, which reaches the balancer only if the
\* balancer is a HealthChecker
handleProxyError(e) ==
    /\ \E n \in DOMAIN balPicks : balPicks[n] = e
    /\ e # None
    /\ e \notin balMarked
    /\ Unlocked
    /\ LET i == indexOf(balTargets, e)
       IN /\ balState' = IF IsHealthChecker(balPolicy)
                         THEN [balState EXCEPT !.healthy[i] = FALSE]
                         ELSE balState
          /\ balFrozen' = [balFrozen EXCEPT ![i] =
                              [count |-> balState.conns[i],
                               released |-> FALSE]]
    /\ balMarked' = balMarked \cup {e}
    /\ balLast' = [op |-> "MarkUnhealthy", target |-> e,
                   marked |-> balMarked \cup {e}]
    /\ UNCHANGED <<now, balPolicy, balTargets, balWeights, balProc,
                   balPicks>>
    /\ UNCHANGED <<cbVars, gwVars, tbVars, swVars, fwVars, drlVars, rlVars, ppVars, cfVars, amVars>>

\* LeastConnections.MarkUnhealthy(target), under lc.mu.Lock
LeastConnections_MarkUnhealthy(i) ==
    /\ balPolicy = "least_connections"
    /\ i \in 1..Len(balTargets)
    /\ balTargets[i] \notin balMarked
    /\ Unlocked
    /\ balState' = [balState EXCEPT !.healthy[i] = FALSE]
    /\ balFrozen' = [balFrozen EXCEPT ![i] =
                        [count |-> balState.conns[i], released |-> FALSE]]
    /\ balMarked' = balMarked \cup {balTargets[i]}
    /\ balLast' = [op |-> "MarkUnhealthy", target |-> balTargets[i],
                   marked |-> balMarked \cup {balTargets[i]}]
    /\ UNCHANGED <<now, balPolicy, balTargets, balWeights, balProc,
                   balPicks>>
    /\ UNCHANGED <<cbVars, gwVars, tbVars, swVars, fwVars, drlVars, rlVars, ppVars, cfVars, amVars>>

\* LeastConnections.MarkHealthy(target), under lc.mu.Lock
LeastConnections_MarkHealthy(i) ==
    /\ balPolicy = "least_connections"
    /\ i \in 1..Len(balTargets)
    /\ balTargets[i] \in balMarked
    /\ Unlocked
    /\ balState' = [balState EXCEPT !.healthy[i] = TRUE]
    /\ balMarked' = balMarked \ {balTargets[i]}
    /\ balLast' = [op |-> "MarkHealthy", target |-> balTargets[i],
                   marked |-> balMarked \ {balTargets[i]}]
    /\ UNCHANGED <<now, balPolicy, balTargets, balWeights, balProc,
                   balPicks, balFrozen>>
    /\ UNCHANGED <<cbVars, gwVars, tbVars, swVars, fwVars, drlVars, rlVars, ppVars, cfVars, amVars>>

\* LeastConnections.ReleaseConnection(target), the search loop and the
\* test t.Connections > 0 (under lc.mu.RLock, which other readers share);
\* with a count of 0 the call returns without effect
LeastConnections_ReleaseConnection_test(p, i) ==
    /\ balPolicy = "least_connections"
    /\ balProc[p].pc = "idle"
    /\ i \in 1..Len(balTargets)
    /\ balState.conns[i] > 0
    /\ balProc' = [balProc EXCEPT ![p] = [pc |-> "releasing", sel |-> i]]
    /\ UNCHANGED <<now, balPolicy, balTargets, balWeights, balState,
                   balPicks, balMarked, balFrozen, balLast>>
    /\ UNCHANGED <<cbVars, gwVars, tbVars, swVars, fwVars, drlVars, rlVars, ppVars, cfVars, amVars>>

\* LeastConnections.ReleaseConnection, atomic.AddInt64(&t.Connections, -1)
\* and return (still under the read lock)
LeastConnections_ReleaseConnection_add(p) ==
    /\ balProc[p].pc = "releasing"
    /\ balState' = [balState EXCEPT !.conns[balProc[p].sel] = @ - 1]
    /\ balFrozen' = [balFrozen EXCEPT ![balProc[p].sel].released = TRUE]
    /\ balLast' = [op |-> "ReleaseConnection",
                   target |-> balTargets[balProc[p].sel],
                   marked |-> balMarked]
    /\ balProc' = [balProc EXCEPT ![p] = IdlePick]
    /\ UNCHANGED <<now, balPolicy, balTargets, balWeights, balPicks,
                   balMarked>>
    /\ UNCHANGED <<cbVars, gwVars, tbVars, swVars, fwVars, drlVars, rlVars, ppVars, cfVars, amVars>>

NextBalancer ==
    \/ RoundRobin_NextTarget
    \/ WeightedRoundRobin_NextTarget
    \/ \E i \in 1..MaxTargets : Random_NextTarget(i)
    \/ \E p \in Procs : LeastConnections_NextTarget_select(p)
    \/ \E p \in Procs : LeastConnections_NextTarget_add(p)
    \/ \E i \in 1..MaxTargets : handleProxyError(Endpoints[i])
    \/ \E i \in 1..MaxTargets : LeastConnections_MarkUnhealthy(i)
    \/ \E i \in 1..MaxTargets : LeastConnections_MarkHealthy(i)
    \/ \E p \in Procs, i \in 1..MaxTargets :
          LeastConnections_ReleaseConnection_test(p, i)
    \/ \E p \in Procs : LeastConnections_ReleaseConnection_add(p)

SpecBalancer == InitBalancer /\ [][NextBalancer]_vars


\* number of selections of endpoint e among picks[from .. from + len - 1]
CountPicks(picks, from, len, e) ==
    Cardinality({n \in from..(from + len - 1) : picks[n] = e})

\* C16: round robin over the list [a, b] of a fresh balancer selects a
\* first, b second and a third.
C16_RoundRobinStartsAtFirst ==
    (balPolicy = "round_robin" /\ balTargets = <<"a", "b">>)
    => /\ Len(balPicks) >= 1 => balPicks[1] = "a"
       /\ Len(balPicks) >= 2 => balPicks[2] = "b"
       /\ Len(balPicks) >= 3 => balPicks[3] = "a"

\* C17: round robin over N endpoints: any 10N consecutive selections, in
\* the order the counter was incremented, hold each endpoint exactly 10
\* times.
C17_RoundRobinFairWindows ==
    balPolicy = "round_robin"
    => LET N == Len(balTargets) IN
       \A from \in 1..Len(balPicks) :
          from + RoundsPerWindow * N - 1 <= Len(balPicks)
          => \A i \in 1..N :
                CountPicks(balPicks, from, RoundsPerWindow * N,
                           balTargets[i]) = RoundsPerWindow

\* more than one full window of selections over two endpoints
C17_Witness ==
    /\ balPolicy = "round_robin"
    /\ Len(balTargets) = 2
    /\ Len(balPicks) > RoundsPerWindow * Len(balTargets)

\* C18: weighted round robin with positive weights w_i and S their sum: any
\* S consecutive selections hold endpoint i exactly w_i times.
C18_WeightedFairWindows ==
    balPolicy = "weighted_round_robin"
    => LET N == Len(balTargets)
           S == SumTo(balWeights, N)
       IN \A from \in 1..Len(balPicks) :
             from + S - 1 <= Len(balPicks)
             => \A i \in 1..N :
                   CountPicks(balPicks, from, S, balTargets[i])
                      = balWeights[i]

\* two full periods of selections over endpoints of unequal weights
C18_Witness ==
    /\ balPolicy = "weighted_round_robin"
    /\ Len(balTargets) = 2
    /\ balWeights[1] # balWeights[2]
    /\ Len(balPicks) >= 2 * SumTo(balWeights, Len(balTargets))

\* C19: with any of the four policies, once the forwarder has marked an
\* endpoint unhealthy after a proxy error no selection returns it until it
\* is marked healthy again, and an endpoint that is not marked is eligible
\* (a selection only returns none when every endpoint is marked).
C19_UnhealthyNeverSelected ==
    balLast.op = "NextTarget"
    => /\ balLast.target \notin balLast.marked
       /\ balLast.target = None
             => balLast.marked = {balTargets[i] : i \in 1..Len(balTargets)}

\* C20: least connections: while endpoints are marked unhealthy every
\* selection returns an endpoint that is not marked, none exactly when all
\* are marked, and a marked endpoint's connection count is not incremented:
\* it never exceeds the count it had when marked and equals it as long as
\* no connection of it was released.
C20_LeastConnectionsSkipsUnhealthy ==
    balPolicy = "least_connections"
    => /\ balLast.op = "NextTarget"
          => /\ balLast.target \notin balLast.marked
             /\ balLast.target = None
                  <=> balLast.marked
                        = {balTargets[i] : i \in 1..Len(balTargets)}
       /\ \A i \in 1..Len(balTargets) :
             balTargets[i] \in balMarked
             => /\ balState.conns[i] <= balFrozen[i].count
                /\ ~balFrozen[i].released
                      => balState.conns[i] = balFrozen[i].count

\* b is marked unhealthy and selections went on: a was selected, its count
\* has grown, b's has not
C20_Witness ==
    /\ balPolicy = "least_connections"
    /\ Len(balTargets) = 2
    /\ balMarked = {"b"}
    /\ balLast.op = "NextTarget" /\ balLast.target = "a"
    /\ balLast.marked = {"b"}
    /\ balState.conns[1] >= 2
    /\ balState.conns[2] = 0

\* C35: least connections: two concurrent selections over two idle healthy
\* endpoints never both return the same endpoint (the increment is atomic
\* with the choice).
C35_ConcurrentSelectionsDiffer ==
    (/\ balPolicy = "least_connections"
     /\ Len(balTargets) = 2
     /\ \A i \in 1..2 : balState.healthy[i] /\ balState.conns[i] = 0
     /\ \A p \in Procs : balProc[p].pc = "selected")
    => balProc["p1"].sel # balProc["p2"].sel

\* C36: least connections: the active-connection count of every endpoint
\* is never negative, under any interleaving of concurrent NextTarget and
\* ReleaseConnection calls.
C36_CountNeverNegative ==
    balPolicy = "least_connections"
    => \A i \in 1..Len(balTargets) : balState.conns[i] >= 0

\* =========================================================================
\* Admin routes over proxy.ProxyManager and circuit.Manager
\* =========================================================================

\* names a service can be registered under
Services == {"u", "v"}

\* a service of the routing configuration: whether it is configured at all
\* and whether its configuration enables the circuit breaker
NoService == [present |-> FALSE, Enabled |-> FALSE]

ServiceConfigs == [present : {TRUE}, Enabled : BOOLEAN]

\* the runtime's fatal error on a concurrent map read and write, as a value
\* a table access can end in
Fatal == -1

\* pc: idle, or inside a read ("read") or a write ("write") of
\* ProxyManager.proxies; name, val, cfg: the key, the proxy to store (0:
\* delete the key) and the configuration it was built from; got: what the
\* last GetProxy returned (0: nil)
IdleAdmin == [pc |-> "idle", name |-> "none", val |-> 0, cfg |-> NoService,
              got |-> 0]

\* another goroutine is inside a write of the table
WriterBeside(p) == \E q \in Procs \ {p} : amProc[q].pc = "write"

\* the process died of the runtime's fatal error
Crashed == \E p \in Procs : amProc[p].got = Fatal

\* main: initializeServices registers, for every configured service, a
\* breaker if its configuration enables one, and a proxy (numbered 1)
InitAdmin ==
    /\ now = 0
    /\ amReset = 0
    /\ amServices \in [Services -> ServiceConfigs \cup {NoService}]
    /\ amProxies = [s \in Services |->
                       IF amServices[s].present THEN 1 ELSE 0]
    /\ amBreakers = {s \in Services : amServices[s].present
                                       /\ amServices[s].Enabled}
    /\ amProc = [p \in Procs |-> IdleAdmin]
    /\ amCount = 0
    /\ cbIdle /\ gwIdle /\ tbIdle /\ swIdle /\ fwIdle /\ drlIdle /\ rlIdle
    /\ balIdle /\ ppIdle /\ cfIdle

\* Gateway.proxyRequest calls ProxyManager.GetProxy(name): the map read
\* begins
GetProxy_begin(p, name) ==
    /\ ~Crashed
    /\ amProc[p].pc = "idle"
    /\ amProc' = [amProc EXCEPT ![p] =
                     [pc |-> "read", name |-> name, val |-> 0,
                      cfg |-> NoService, got |-> 0]]
    /\ UNCHANGED <<now, amReset, amServices, amProxies, amBreakers, amCount>>
    /\ UNCHANGED <<cbVars, gwVars, tbVars, swVars, fwVars, drlVars, rlVars,
                   balVars, ppVars, cfVars>>

\* the map read returns: the entry of the key, or, a write of the table
\* being in progress beside it, the entry, the value being written to the
\* same key, or the runtime's fatal error
GetProxy_end(p, r) ==
    /\ ~Crashed
    /\ amProc[p].pc = "read"
    /\ r \in {amProxies[amProc[p].name]}
             \cup (IF WriterBeside(p) THEN {Fatal} ELSE {})
             \cup {amProc[q].val : q \in {q \in Procs \ {p} :
                       /\ amProc[q].pc = "write"
                       /\ amProc[q].name = amProc[p].name}}
    /\ amProc' = [amProc EXCEPT ![p] = [IdleAdmin EXCEPT !.got = r]]
    /\ UNCHANGED <<now, amReset, amServices, amProxies, amBreakers, amCount>>
    /\ UNCHANGED <<cbVars, gwVars, tbVars, swVars, fwVars, drlVars, rlVars,
                   balVars, ppVars, cfVars>>

\* Gateway.updateService (PUT /admin/services/:name) with a body that
\* binds: ProxyManager.UpdateService builds a new ReverseProxy and begins
\* the map assignment
updateService_begin(p, name, cfg) ==
    /\ ~Crashed
    /\ amProc[p].pc = "idle"
    /\ amCount < MaxAdminCalls
    /\ amCount' = amCount + 1
    /\ amProc' = [amProc EXCEPT ![p] =
                     [pc |-> "write", name |-> name, val |-> amCount + 2,
                      cfg |-> cfg, got |-> 0]]
    /\ UNCHANGED <<now, amReset, amServices, amProxies, amBreakers>>
    /\ UNCHANGED <<cbVars, gwVars, tbVars, swVars, fwVars, drlVars, rlVars,
                   balVars, ppVars, cfVars>>

\* Gateway.deleteService (DELETE /admin/services/:name):
\* ProxyManager.RemoveService begins delete(pm.proxies, name)
deleteService_begin(p, name) ==
    /\ ~Crashed
    /\ amProc[p].pc = "idle"
    /\ amCount < MaxAdminCalls
    /\ amCount' = amCount + 1
    /\ amProc' = [amProc EXCEPT ![p] =
                     [pc |-> "write", name |-> name, val |-> 0,
                      cfg |-> NoService, got |-> 0]]
    /\ UNCHANGED <<now, amReset, amServices, amProxies, amBreakers>>
    /\ UNCHANGED <<cbVars, gwVars, tbVars, swVars, fwVars, drlVars, rlVars,
                   balVars, ppVars, cfVars>>

\* ProxyManager.UpdateService / RemoveService: the map write completes and
\* the handler answers 200 (crashed: the runtime detected another write of
\* the table beside it); the handlers call nothing of circuit.Manager
ProxyManager_store(p, crashed) ==
    /\ ~Crashed
    /\ amProc[p].pc = "write"
    /\ crashed => WriterBeside(p)
    /\ amProxies' = [amProxies EXCEPT ![amProc[p].name] = amProc[p].val]
    /\ amServices' = [amServices EXCEPT ![amProc[p].name] = amProc[p].cfg]
    /\ amProc' = [amProc EXCEPT ![p] =
                     [IdleAdmin EXCEPT !.got = IF crashed THEN Fatal ELSE 0]]
    /\ UNCHANGED <<now, amReset, amBreakers, amCount>>
    /\ UNCHANGED <<cbVars, gwVars, tbVars, swVars, fwVars, drlVars, rlVars,
                   balVars, ppVars, cfVars>>

NextAdmin ==
    \/ \E p \in Procs, name \in Services : GetProxy_begin(p, name)
    \/ \E p \in Procs, r \in Fatal..(MaxAdminCalls + 1) : GetProxy_end(p, r)
    \/ \E p \in Procs, name \in Services, cfg \in ServiceConfigs :
          updateService_begin(p, name, cfg)
    \/ \E p \in Procs, name \in Services : deleteService_begin(p, name)
    \/ \E p \in Procs, crashed \in BOOLEAN : ProxyManager_store(p, crashed)

SpecAdmin == InitAdmin /\ [][NextAdmin]_vars

\* C37: after any sequence of startup initialisation, admin updateService
\* and admin deleteService calls, a breaker named s is registered iff
\* service s currently has a registered proxy and its current
\* configuration enables the circuit breaker.
C37_BreakerIffEnabledService ==
    (\A p \in Procs : amProc[p].pc = "idle")
    => \A s \in Services :
          s \in amBreakers
          <=> (amProxies[s] # 0 /\ amServices[s].present
                                /\ amServices[s].Enabled)

\* C39: the service-to-proxy table is never read and written without
\* synchronisation: no interleaving reaches a write of the table beside
\* another access of it, and a GetProxy that runs beside an admin change
\* returns the proxy registered before or after it.
C39_TableAccessSynchronised ==
    /\ \A p \in Procs :
          amProc[p].pc \in {"read", "write"} => ~WriterBeside(p)
    /\ ~Crashed

\* =========================================================================
\* Middleware chain: gin.Engine dispatch over the chains of SetupRoutes
\* =========================================================================

\* gin's abortIndex: c.Abort() sets c.index to it
AbortIndex == 63

\* bearer tokens a client may present
Tokens == {"t_user", "t_admin", "t_expired", "t_forged"}

NoClaims == [UserID |-> "", Roles |-> {}]

\* JWTAuth.ValidateToken: the claims of a token that parses, is signed with
\* the HMAC secret and is not expired; NoClaims stands for the error return
ValidateToken(token) ==
    CASE token = <<"t_user">> -> [UserID |-> "alice", Roles |-> {"user"}]
      [] token = <<"t_admin">> -> [UserID |-> "root", Roles |-> {"admin"}]
      [] OTHER -> NoClaims

\* JWTAuth.HasRole granting every role
HasRole_anyRole(claims, role) == TRUE

\* JWTAuth.HasRole
HasRole(claims, role) == role \in claims.Roles

\* strings.Split(s, sep) over a string given as its sequence of symbols
RECURSIVE Split(_, _)
Split(s, sep) ==
    IF \A i \in 1..Len(s) : s[i] # sep THEN <<s>>
    ELSE LET k == CHOOSE i \in 1..Len(s) :
                    s[i] = sep /\ \A j \in 1..(i - 1) : s[j] # sep
         IN <<SubSeq(s, 1, k - 1)>> \o Split(SubSeq(s, k + 1, Len(s)), sep)

\* JWTAuth.ExtractTokenFromHeader accepting the header whatever its parts
ExtractTokenFromHeader_lastPart(authHeader) ==
    LET parts == Split(authHeader, " ")
    IN [err |-> FALSE, token |-> parts[Len(parts)]]

\* JWTAuth.ExtractTokenFromHeader: exactly two parts, the first "Bearer"
ExtractTokenFromHeader(authHeader) ==
    LET parts == Split(authHeader, " ")
    IN IF Len(parts) # 2 \/ parts[1] # <<"Bearer">>
       THEN [err |-> TRUE, token |-> <<>>]
       ELSE [err |-> FALSE, token |-> parts[2]]

\* Authorization header values, as sequences of symbols (<<>>: no header)
AuthHeaders ==
    {<<>>} \cup {<<"Bearer", " ", t>> : t \in Tokens}
    \cup {<<"bearer", " ", "t_admin">>, <<"Bearer", " ", " ", "t_admin">>,
          <<"t_admin">>, <<"Bearer", " ">>}

Paths == {"/health", "/auth/login", "/auth/refresh", "/api/profile",
          "/admin/stats", "/u/items"}

\* requests: the header is varied where a route may look at it
HTTPRequests ==
    {q \in [path : Paths, method : {"GET", "POST", "OPTIONS"},
            header : AuthHeaders] :
        q.path \in {"/health", "/auth/login", "/u/items"}
            => q.header \in {<<>>, <<"Bearer", " ", "t_admin">>}}

\* c.ClientIP() of the requests
ClientIP == "10.0.0.1"

\* CreateDefaultChain: the core stages, CORS and RateLimit when enabled
CreateDefaultChain(cors, limit) ==
    <<"RequestID", "Logger", "Recovery", "Metrics">>
    \o (IF cors THEN <<"CORS">> ELSE <<>>)
    \o (IF limit THEN <<"RateLimit">> ELSE <<>>)

CreateAuthChain(cors, limit) ==
    CreateDefaultChain(cors, limit) \o <<"JWTAuth">>

CreateAdminChain(cors, limit) ==
    CreateDefaultChain(cors, limit) \o <<"JWTAuth", "RequireRole">>

\* route handlers registered by SetupRoutes (proxyRequest through NoRoute)
RouteHandlers == {"healthCheck", "login", "refreshToken", "getUserProfile",
                  "getStats", "proxyRequest"}

AdminHandlers == {"getStats"}

\* the handlers gin runs for a request: router.Use(default chain), then the
\* middleware of the route's group or route, then the route handler; a
\* method and path without a registered route get the NoRoute handler
\* after the router's middleware
handlersFor(q, cors, limit) ==
    LET global == CreateDefaultChain(cors, limit)
        auth   == CreateAuthChain(cors, limit)
    IN CASE q.method = "GET" /\ q.path = "/health" ->
              global \o <<"healthCheck">>
         [] q.method = "POST" /\ q.path = "/auth/login" ->
              global \o <<"login">>
         [] q.method = "POST" /\ q.path = "/auth/refresh" ->
              global \o <<auth[Len(auth)], "refreshToken">>
         [] q.method = "GET" /\ q.path = "/admin/stats" ->
              global \o CreateAdminChain(cors, limit) \o <<"getStats">>
         [] q.method = "GET" /\ q.path = "/api/profile" ->
              global \o auth \o <<"getUserProfile">>
         [] OTHER -> global \o <<"proxyRequest">>

\* c.Abort() with nothing aborted
Abort_keepsIndex(index) == index

\* c.Abort(): no handler position is below abortIndex
Abort(index) == AbortIndex

\* the default rule of the gateway whose chain is followed
ChainRule == [Requests |-> 2, Window |-> 1, Burst |-> 2]

NoWriter == [stage |-> None, at |-> 0]

\* the handler c.Next() or the engine is about to call
Running == ppPhase = "running" /\ ppIndex < Len(ppHandlers)

Stage == ppHandlers[ppIndex + 1]

InitPipeline ==
    /\ now = 0
    /\ ppCfg \in [CORS : BOOLEAN]
    /\ rlCfg \in {[c EXCEPT !.Default = ChainRule] :
                    c \in {x \in RLConfigs :
                             /\ x.Algorithm \in {"token_bucket",
                                                  "distributed"}
                             /\ x.Redis}}
    /\ rlAlgorithms = NewManager(rlCfg)
    /\ rlState = [n \in DOMAIN rlAlgorithms |->
                    [k \in RLKeys |-> InitState(rlAlgorithms[n].kind)]]
    /\ rlOwn = rlState
    /\ rlLast = NoCheck
    /\ rlSeen = {}
    /\ rlDenied = {}
    /\ rlCalls = 0
    /\ ppReq = [path |-> None, method |-> None, header |-> <<>>]
    /\ ppHandlers = <<>>
    /\ ppIndex = -1
    /\ ppStack = <<>>
    /\ ppTrace = <<>>
    /\ ppStatus = 0
    /\ ppWriter = NoWriter
    /\ ppUser = NoClaims
    /\ ppRecorded = <<>>
    /\ ppPhase = "idle"
    /\ ppCount = 0
    /\ cbIdle /\ gwIdle /\ tbIdle /\ swIdle /\ fwIdle /\ drlIdle /\ balIdle
    /\ cfIdle /\ amIdle

\* gin's ResponseWriter keeps the first status written
Written(status, code) == IF status = 0 THEN code ELSE status

\* gin.Engine.ServeHTTP: the context is reset, the route is looked up and
\* its handler chain is started with c.Next()
ServeHTTP(q) ==
    /\ ppPhase # "running"
    /\ ppCount < MaxRequests
    /\ ppCount' = ppCount + 1
    /\ ppReq' = q
    /\ ppHandlers' = handlersFor(q, ppCfg.CORS, rlCfg.Enabled)
    /\ ppIndex' = 0
    /\ ppStack' = <<>>
    /\ ppTrace' = <<>>
    /\ ppStatus' = 0
    /\ ppWriter' = NoWriter
    /\ ppUser' = NoClaims
    /\ ppRecorded' = <<>>
    /\ ppPhase' = "running"
    /\ UNCHANGED <<now, ppCfg, rlCfg, rlAlgorithms, rlState, rlOwn, rlLast,
                   rlSeen, rlDenied, rlCalls>>
    /\ UNCHANGED <<cbVars, gwVars, tbVars, swVars, fwVars, drlVars, balVars,
                   cfVars, amVars>>

\* Manager.RequestID: sets the identifier, then c.Next()
Chain_RequestID ==
    /\ Running /\ Stage = "RequestID"
    /\ ppTrace' = Append(ppTrace, "RequestID")
    /\ ppStack' = Append(ppStack, ppIndex + 1)
    /\ ppIndex' = ppIndex + 1
    /\ UNCHANGED <<now, ppCfg, ppReq, ppHandlers, ppStatus, ppWriter,
                   ppUser, ppRecorded, ppPhase, ppCount, rlCfg,
                   rlAlgorithms, rlState, rlOwn, rlLast, rlSeen, rlDenied,
                   rlCalls>>
    /\ UNCHANGED <<cbVars, gwVars, tbVars, swVars, fwVars, drlVars, balVars,
                   cfVars, amVars>>

\* Manager.Logger up to c.Next(); the log line is written on return
Chain_Logger ==
    /\ Running /\ Stage = "Logger"
    /\ ppTrace' = Append(ppTrace, "Logger")
    /\ ppStack' = Append(ppStack, ppIndex + 1)
    /\ ppIndex' = ppIndex + 1
    /\ UNCHANGED <<now, ppCfg, ppReq, ppHandlers, ppStatus, ppWriter,
                   ppUser, ppRecorded, ppPhase, ppCount, rlCfg,
                   rlAlgorithms, rlState, rlOwn, rlLast, rlSeen, rlDenied,
                   rlCalls>>
    /\ UNCHANGED <<cbVars, gwVars, tbVars, swVars, fwVars, drlVars, balVars,
                   cfVars, amVars>>

\* Manager.Recovery: installs the deferred recover, then c.Next()
Chain_Recovery ==
    /\ Running /\ Stage = "Recovery"
    /\ ppTrace' = Append(ppTrace, "Recovery")
    /\ ppStack' = Append(ppStack, ppIndex + 1)
    /\ ppIndex' = ppIndex + 1
    /\ UNCHANGED <<now, ppCfg, ppReq, ppHandlers, ppStatus, ppWriter,
                   ppUser, ppRecorded, ppPhase, ppCount, rlCfg,
                   rlAlgorithms, rlState, rlOwn, rlLast, rlSeen, rlDenied,
                   rlCalls>>
    /\ UNCHANGED <<cbVars, gwVars, tbVars, swVars, fwVars, drlVars, balVars,
                   cfVars, amVars>>

\* Manager.Metrics up to c.Next(); the request is recorded on return
Chain_Metrics ==
    /\ Running /\ Stage = "Metrics"
    /\ ppTrace' = Append(ppTrace, "Metrics")
    /\ ppStack' = Append(ppStack, ppIndex + 1)
    /\ ppIndex' = ppIndex + 1
    /\ UNCHANGED <<now, ppCfg, ppReq, ppHandlers, ppStatus, ppWriter,
                   ppUser, ppRecorded, ppPhase, ppCount, rlCfg,
                   rlAlgorithms, rlState, rlOwn, rlLast, rlSeen, rlDenied,
                   rlCalls>>
    /\ UNCHANGED <<cbVars, gwVars, tbVars, swVars, fwVars, drlVars, balVars,
                   cfVars, amVars>>

\* Manager.CORS: a preflight is answered 204 and aborted, anything else
\* continues
Chain_CORS ==
    /\ Running /\ Stage = "CORS"
    /\ ppTrace' = Append(ppTrace, "CORS")
    /\ IF ppReq.method = "OPTIONS"
       THEN /\ ppStatus' = Written(ppStatus, 204)
            /\ ppWriter' = [stage |-> "CORS", at |-> Len(ppTrace) + 1]
            /\ ppIndex' = Abort(ppIndex) + 1
            /\ UNCHANGED ppStack
       ELSE /\ ppStack' = Append(ppStack, ppIndex + 1)
            /\ ppIndex' = ppIndex + 1
            /\ UNCHANGED <<ppStatus, ppWriter>>
    /\ UNCHANGED <<now, ppCfg, ppReq, ppHandlers, ppUser, ppRecorded,
                   ppPhase, ppCount, rlCfg, rlAlgorithms, rlState, rlOwn,
                   rlLast, rlSeen, rlDenied, rlCalls>>
    /\ UNCHANGED <<cbVars, gwVars, tbVars, swVars, fwVars, drlVars, balVars,
                   cfVars, amVars>>

\* Manager.RateLimit in the chain: the key is the user id of stored claims,
\* else the client address; 500 on a check error, 429 on a denial
Chain_RateLimit(fail) ==
    /\ Running /\ Stage = "RateLimit"
    /\ ppTrace' = Append(ppTrace, "RateLimit")
    /\ LET key == IF ppUser # NoClaims THEN ppUser.UserID ELSE ClientIP
           r   == CheckLimit(key, fail)
       IN /\ MayFail(key, fail)
          /\ rlState' = r.state
          /\ rlOwn' = r.own
          /\ IF r.err \/ ~r.allowed
             THEN /\ ppStatus' = Written(ppStatus,
                                    IF r.err THEN StatusInternalServerError
                                    ELSE StatusTooManyRequests)
                  /\ ppWriter' = [stage |-> "RateLimit",
                                  at |-> Len(ppTrace) + 1]
                  /\ ppIndex' = Abort(ppIndex) + 1
                  /\ UNCHANGED ppStack
             ELSE /\ ppStack' = Append(ppStack, ppIndex + 1)
                  /\ ppIndex' = ppIndex + 1
                  /\ UNCHANGED <<ppStatus, ppWriter>>
    /\ UNCHANGED <<now, ppCfg, ppReq, ppHandlers, ppUser, ppRecorded,
                   ppPhase, ppCount, rlCfg, rlAlgorithms, rlLast, rlSeen,
                   rlDenied, rlCalls>>
    /\ UNCHANGED <<cbVars, gwVars, tbVars, swVars, fwVars, drlVars, balVars,
                   cfVars, amVars>>

\* Manager.JWTAuth: 401 without a header, with a header
\* ExtractTokenFromHeader rejects or with a token ValidateToken rejects;
\* else the claims are stored and the chain continues
Chain_JWTAuth ==
    /\ Running /\ Stage = "JWTAuth"
    /\ ppTrace' = Append(ppTrace, "JWTAuth")
    /\ LET x      == ExtractTokenFromHeader(ppReq.header)
           claims == ValidateToken(x.token)
       IN IF ppReq.header = <<>> \/ x.err \/ claims = NoClaims
          THEN /\ ppStatus' = Written(ppStatus, 401)
               /\ ppWriter' = [stage |-> "JWTAuth", at |-> Len(ppTrace) + 1]
               /\ ppIndex' = Abort(ppIndex) + 1
               /\ UNCHANGED <<ppStack, ppUser>>
          ELSE /\ ppUser' = claims
               /\ ppStack' = Append(ppStack, ppIndex + 1)
               /\ ppIndex' = ppIndex + 1
               /\ UNCHANGED <<ppStatus, ppWriter>>
    /\ UNCHANGED <<now, ppCfg, ppReq, ppHandlers, ppRecorded, ppPhase,
                   ppCount, rlCfg, rlAlgorithms, rlState, rlOwn, rlLast,
                   rlSeen, rlDenied, rlCalls>>
    /\ UNCHANGED <<cbVars, gwVars, tbVars, swVars, fwVars, drlVars, balVars,
                   cfVars, amVars>>

\* Manager.RequireRole("admin"): 401 without stored claims, 403 when the
\* claims lack the role (stored claims always have the type *auth.Claims)
Chain_RequireRole ==
    /\ Running /\ Stage = "RequireRole"
    /\ ppTrace' = Append(ppTrace, "RequireRole")
    /\ IF ppUser = NoClaims \/ ~HasRole(ppUser, "admin")
       THEN /\ ppStatus' = Written(ppStatus,
                                   IF ppUser = NoClaims THEN 401 ELSE 403)
            /\ ppWriter' = [stage |-> "RequireRole",
                            at |-> Len(ppTrace) + 1]
            /\ ppIndex' = Abort(ppIndex) + 1
            /\ UNCHANGED ppStack
       ELSE /\ ppStack' = Append(ppStack, ppIndex + 1)
            /\ ppIndex' = ppIndex + 1
            /\ UNCHANGED <<ppStatus, ppWriter>>
    /\ UNCHANGED <<now, ppCfg, ppReq, ppHandlers, ppUser, ppRecorded,
                   ppPhase, ppCount, rlCfg, rlAlgorithms, rlState, rlOwn,
                   rlLast, rlSeen, rlDenied, rlCalls>>
    /\ UNCHANGED <<cbVars, gwVars, tbVars, swVars, fwVars, drlVars, balVars,
                   cfVars, amVars>>

\* the route handler: it answers (healthCheck: 200; proxyRequest: what the
\* upstream or the proxy error path gave) or panics. A panic unwinds the
\* handlers waiting in c.Next() without running the rest of them, up to the
\* innermost Recovery, whose deferred function answers 500 and aborts
Chain_Handler(res) ==
    /\ Running /\ Stage \in RouteHandlers
    /\ res = "error" => Stage = "proxyRequest"
    /\ ppTrace' = Append(ppTrace, Stage)
    /\ IF res = "panic"
       THEN LET k == CHOOSE i \in 1..Len(ppStack) :
                       /\ ppHandlers[ppStack[i]] = "Recovery"
                       /\ \A j \in (i + 1)..Len(ppStack) :
                              ppHandlers[ppStack[j]] # "Recovery"
            IN /\ ppStack' = SubSeq(ppStack, 1, k - 1)
               /\ ppStatus' = Written(ppStatus, StatusInternalServerError)
               /\ ppWriter' = [stage |-> "Recovery",
                               at |-> Len(ppTrace) + 1]
               /\ ppIndex' = Abort(ppIndex) + 1
       ELSE /\ ppStatus' = Written(ppStatus,
                                   IF res = "error" THEN 502 ELSE 200)
            /\ ppWriter' = [stage |-> Stage, at |-> Len(ppTrace) + 1]
            /\ ppIndex' = ppIndex + 1
            /\ UNCHANGED ppStack
    /\ UNCHANGED <<now, ppCfg, ppReq, ppHandlers, ppUser, ppRecorded,
                   ppPhase, ppCount, rlCfg, rlAlgorithms, rlState, rlOwn,
                   rlLast, rlSeen, rlDenied, rlCalls>>
    /\ UNCHANGED <<cbVars, gwVars, tbVars, swVars, fwVars, drlVars, balVars,
                   cfVars, amVars>>

\* c.Next() returns into the handler that called it last: Metrics then
\* records the request with c.Writer.Status(), Logger writes its line
Chain_Return ==
    /\ ppPhase = "running" /\ ~(ppIndex < Len(ppHandlers))
    /\ ppStack # <<>>
    /\ ppStack' = SubSeq(ppStack, 1, Len(ppStack) - 1)
    /\ ppRecorded' = IF ppHandlers[ppStack[Len(ppStack)]] = "Metrics"
                     THEN Append(ppRecorded, Written(ppStatus, 200))
                     ELSE ppRecorded
    /\ UNCHANGED <<now, ppCfg, ppReq, ppHandlers, ppIndex, ppTrace,
                   ppStatus, ppWriter, ppUser, ppPhase, ppCount, rlCfg,
                   rlAlgorithms, rlState, rlOwn, rlLast, rlSeen, rlDenied,
                   rlCalls>>
    /\ UNCHANGED <<cbVars, gwVars, tbVars, swVars, fwVars, drlVars, balVars,
                   cfVars, amVars>>

\* the chain has returned to the engine: the response is complete (200
\* when no status was written)
ServeHTTP_return ==
    /\ ppPhase = "running" /\ ~(ppIndex < Len(ppHandlers))
    /\ ppStack = <<>>
    /\ ppStatus' = Written(ppStatus, 200)
    /\ ppPhase' = "done"
    /\ UNCHANGED <<now, ppCfg, ppReq, ppHandlers, ppIndex, ppStack,
                   ppTrace, ppWriter, ppUser, ppRecorded, ppCount, rlCfg,
                   rlAlgorithms, rlState, rlOwn, rlLast, rlSeen, rlDenied,
                   rlCalls>>
    /\ UNCHANGED <<cbVars, gwVars, tbVars, swVars, fwVars, drlVars, balVars,
                   cfVars, amVars>>

\* the clock advances between requests
PipelineTick ==
    /\ ppPhase # "running"
    /\ now < MaxLimitTime
    /\ now' = now + 1
    /\ UNCHANGED <<cbVars, gwVars, tbVars, swVars, fwVars, drlVars, rlVars,
                   balVars, ppVars, cfVars, amVars>>

NextPipeline ==
    \/ \E q \in HTTPRequests : ServeHTTP(q)
    \/ Chain_RequestID
    \/ Chain_Logger
    \/ Chain_Recovery
    \/ Chain_Metrics
    \/ Chain_CORS
    \/ \E fail \in BOOLEAN : Chain_RateLimit(fail)
    \/ Chain_JWTAuth
    \/ Chain_RequireRole
    \/ \E res \in {"ok", "error", "panic"} : Chain_Handler(res)
    \/ Chain_Return
    \/ ServeHTTP_return
    \/ PipelineTick

SpecPipeline == InitPipeline /\ [][NextPipeline]_vars

\* the stages of a trace, as a set
Entered == {ppTrace[i] : i \in 1..Len(ppTrace)}

\* stages that answer instead of continuing
TerminalStages == {"CORS", "RateLimit", "JWTAuth", "RequireRole", "Recovery"}

DeclaredOrder == <<"RequestID", "Logger", "Recovery", "Metrics", "CORS",
                   "RateLimit", "JWTAuth", "RequireRole", "Handler">>

StageRank(h) ==
    IF h \in RouteHandlers THEN Len(DeclaredOrder)
    ELSE CHOOSE i \in 1..Len(DeclaredOrder) : DeclaredOrder[i] = h

\* C25: on every route the stages entered for a request follow the declared
\* order and each stage is entered at most once.
C25_DeclaredOrderOnce ==
    \A i, j \in 1..Len(ppTrace) :
        i < j => StageRank(ppTrace[i]) < StageRank(ppTrace[j])

\* C26: when a handler running inside the panic barrier panics, the client
\* receives 500 and the request is recorded in the HTTP request metrics
\* with status 500, on every route.
C26_PanicRecordedAsServerError ==
    (ppPhase = "done" /\ ppWriter.stage = "Recovery")
    => /\ ppStatus = StatusInternalServerError
       /\ \E i \in 1..Len(ppRecorded) :
             ppRecorded[i] = StatusInternalServerError

\* tokens that are well-formed, signed with the secret and not expired
ValidTokens == {"t_user", "t_admin"}

\* the header is exactly Bearer <token> with a token that validates
GoodCredential(h) == \E t \in ValidTokens : h = <<"Bearer", " ", t>>

AdminRoute == ppReq.path = "/admin/stats" /\ ppReq.method = "GET"

\* no /admin handler has run unless the request carried a valid token with
\* the role admin
AdminHandlerNeedsAdminToken ==
    Entered \cap AdminHandlers # {}
    => ppReq.header = <<"Bearer", " ", "t_admin">>

\* what the role check answers a finished request to an /admin route
AdminAnswer ==
    /\ ppReq.header = <<"Bearer", " ", "t_user">> => ppStatus = 403
    /\ ~GoodCredential(ppReq.header) => ppStatus = 401

\* C28 as stated: no /admin handler runs without a valid admin token, and
\* every request to an /admin route is answered 403 with a valid token
\* lacking the role and 401 without a valid token.
C28_AdminAnswerAlways ==
    /\ AdminHandlerNeedsAdminToken
    /\ (ppPhase = "done" /\ AdminRoute) => AdminAnswer

\* C28: no /admin handler runs without a valid admin token, and a request
\* to an /admin route that no earlier stage (CORS preflight, rate limit)
\* has answered is answered 403 with a valid token lacking the role and 401
\* without a valid token.
C28_AdminOnly ==
    /\ AdminHandlerNeedsAdminToken
    /\ (ppPhase = "done" /\ AdminRoute
        /\ ppWriter.stage \notin {"CORS", "RateLimit"}) => AdminAnswer

C28_Witness ==
    /\ ppPhase = "done" /\ AdminRoute
    /\ ppReq.header = <<"Bearer", " ", "t_user">>
    /\ ppStatus = 403
    /\ "getStats" \notin Entered

\* C29: GET /health is answered 200 in every state of the rate limiter
\* (the handler itself not failing).
C29_HealthAlways200 ==
    (/\ ppPhase = "done"
     /\ ppReq.path = "/health" /\ ppReq.method = "GET"
     /\ ppWriter.stage # "Recovery")
    => ppStatus = 200

\* the rate-limit decisions (CheckLimit calls) made for the request served
RateLimitDecisions == {i \in DOMAIN ppTrace : ppTrace[i] = "RateLimit"}

\* C34: processing one request makes at most one rate-limit decision for
\* its key, on every route including /api/* and /admin/*.
C34_OneRateLimitDecision ==
    Cardinality(RateLimitDecisions) <= 1

\* =========================================================================
\* config.Manager: Load, Reload, Get, and the components built from Get()
\* =========================================================================

\* the values of a Config the model follows: server port, signing secret,
\* rate limiting enabled, the default rule's requests and window, the
\* number of endpoint URLs of service u and the failure threshold of its
\* enabled breaker
GoodValues == [Port |-> 8080, Secret |-> "s", Enabled |-> TRUE,
               Requests |-> 5, Window |-> 1, URLs |-> 1, Threshold |-> 1]

\* the configurations a file may hold: a good one, and the good one with
\* one value changed
ConfigValues ==
    {GoodValues,
     [GoodValues EXCEPT !.Port = 0], [GoodValues EXCEPT !.Port = 65536],
     [GoodValues EXCEPT !.Secret = ""], [GoodValues EXCEPT !.Requests = 0],
     [GoodValues EXCEPT !.Requests = 0, !.Enabled = FALSE],
     [GoodValues EXCEPT !.Window = 0], [GoodValues EXCEPT !.URLs = 0],
     [GoodValues EXCEPT !.Threshold = 0]}

NoValues == [Port |-> 0, Secret |-> "", Enabled |-> FALSE, Requests |-> 0,
             Window |-> 0, URLs |-> 0, Threshold |-> 0]

\* Manager.config before the first successful Load (nil); id tells the
\* snapshots apart: each successful Load allocates a new Config
NilConfig == [id |-> 0, v |-> NoValues]

\* what the configuration file may hold: nothing readable, YAML whose
\* values do not decode into Config, or the values of a Config
FileContents ==
    [kind : {"unreadable", "mistyped"}, v : {NoValues}]
    \cup [kind : {"config"}, v : ConfigValues]

\* Manager.validateConfig: the error it returns (None: nil)
validateConfig(config) ==
    IF config.v.Port <= 0 \/ config.v.Port > 65535
    THEN "invalid server port"
    ELSE IF config.v.Secret = "" THEN "JWT secret is required"
    ELSE IF config.v.Enabled /\ config.v.Requests <= 0
    THEN "rate limit requests must be positive"
    ELSE None

\* Load decoding straight into the manager's snapshot and validating it in
\* place
loadConfig_validatesInPlace(current, file, readable, id) ==
    IF ~readable \/ file.kind = "unreadable"
    THEN [config |-> current, err |-> "read"]
    ELSE IF file.kind = "mistyped"
    THEN [config |-> current, err |-> "unmarshal"]
    ELSE LET config == [id |-> id, v |-> file.v]
         IN [config |-> config,
             err |-> IF validateConfig(config) # None THEN "validation"
                     ELSE None]

\* the body of Manager.Load: read the file, decode it into a local Config,
\* validate that, and only then store it; the new m.config and the error
loadConfig(current, file, readable, id) ==
    IF ~readable \/ file.kind = "unreadable"
    THEN [config |-> current, err |-> "read"]
    ELSE IF file.kind = "mistyped"
    THEN [config |-> current, err |-> "unmarshal"]
    ELSE LET config == [id |-> id, v |-> file.v]
         IN IF validateConfig(config) # None
            THEN [config |-> current, err |-> "validation"]
            ELSE [config |-> config, err |-> None]

\* op: the last Load or Reload; err: its error; before: the snapshot Get()
\* returned before it; got: what a Get() after it returned (read: whether
\* Get() was called since)
NoLoad == [op |-> None, err |-> None, before |-> NilConfig,
           got |-> NilConfig, read |-> FALSE]

\* served: a request was processed; under: the values (rate-limit rules,
\* routes, endpoints, breaker and CORS settings) that processed it;
\* current: the values of the snapshot Get() returned when it arrived
NoServed == [served |-> FALSE, under |-> NoValues, current |-> NoValues]

InitConfig ==
    /\ now = 0
    /\ cfFile \in FileContents
    /\ cfFileUsed = FALSE
    /\ cfConfig = NilConfig
    /\ cfLast = NoLoad
    /\ cfCount = 0
    /\ cfBuilt = NilConfig
    /\ cfGateway = NilConfig
    /\ cfReq = NoServed
    /\ cbIdle /\ gwIdle /\ tbIdle /\ swIdle /\ fwIdle /\ drlIdle
    /\ rlIdle /\ balIdle /\ ppIdle /\ amIdle

\* the file is edited, replaced or removed
WriteFile(f) ==
    /\ cfFile # f
    /\ cfFile' = f
    /\ UNCHANGED <<now, cfFileUsed, cfConfig, cfLast, cfCount, cfBuilt,
                   cfGateway, cfReq>>
    /\ UNCHANGED <<cbVars, gwVars, tbVars, swVars, fwVars, drlVars, rlVars,
                   balVars, ppVars, amVars>>

\* Manager.Load(configPath) with the path of the file, as main calls it
\* before anything is built
Load ==
    /\ cfBuilt = NilConfig
    /\ cfCount < MaxLoads
    /\ cfCount' = cfCount + 1
    /\ LET r == loadConfig(cfConfig, cfFile, TRUE, cfCount + 1)
       IN /\ cfConfig' = r.config
          /\ cfLast' = [op |-> "Load", err |-> r.err, before |-> cfConfig,
                        got |-> NilConfig, read |-> FALSE]
    /\ cfFileUsed' = TRUE
    /\ UNCHANGED <<now, cfFile, cfBuilt, cfGateway, cfReq>>
    /\ UNCHANGED <<cbVars, gwVars, tbVars, swVars, fwVars, drlVars, rlVars,
                   balVars, ppVars, amVars>>

\* main after a successful Load: cfg := configManager.Get(), and the rate
\* limiter, middleware manager, gateway, routes, proxies and breakers are
\* built from cfg
main ==
    /\ cfConfig # NilConfig
    /\ cfBuilt = NilConfig
    /\ cfBuilt' = cfConfig
    /\ cfGateway' = cfConfig
    /\ UNCHANGED <<now, cfFile, cfFileUsed, cfConfig, cfLast, cfCount, cfReq>>
    /\ UNCHANGED <<cbVars, gwVars, tbVars, swVars, fwVars, drlVars, rlVars,
                   balVars, ppVars, amVars>>

\* Manager.Reload as Watch calls it on a file change (or before anything
\* was loaded): Load with viper.ConfigFileUsed(), which names no file
\* before the first Load
Reload ==
    /\ cfCount < MaxLoads
    /\ cfCount' = cfCount + 1
    /\ LET r == loadConfig(cfConfig, cfFile, cfFileUsed, cfCount + 1)
       IN /\ cfConfig' = r.config
          /\ cfLast' = [op |-> "Reload", err |-> r.err, before |-> cfConfig,
                        got |-> NilConfig, read |-> FALSE]
    /\ UNCHANGED <<now, cfFile, cfFileUsed, cfBuilt, cfGateway, cfReq>>
    /\ UNCHANGED <<cbVars, gwVars, tbVars, swVars, fwVars, drlVars, rlVars,
                   balVars, ppVars, amVars>>

\* Gateway.reloadConfig (POST /admin/config/reload): Reload, and on success
\* g.config = configManager.Get()
reloadConfig ==
    /\ cfBuilt # NilConfig
    /\ cfCount < MaxLoads
    /\ cfCount' = cfCount + 1
    /\ LET r == loadConfig(cfConfig, cfFile, cfFileUsed, cfCount + 1)
       IN /\ cfConfig' = r.config
          /\ cfGateway' = IF r.err = None THEN r.config ELSE cfGateway
          /\ cfLast' = [op |-> "Reload", err |-> r.err, before |-> cfConfig,
                        got |-> NilConfig, read |-> FALSE]
    /\ UNCHANGED <<now, cfFile, cfFileUsed, cfBuilt, cfReq>>
    /\ UNCHANGED <<cbVars, gwVars, tbVars, swVars, fwVars, drlVars, rlVars,
                   balVars, ppVars, amVars>>

\* Manager.Get
Get ==
    /\ cfLast.op # None /\ ~cfLast.read
    /\ cfLast' = [cfLast EXCEPT !.got = cfConfig, !.read = TRUE]
    /\ UNCHANGED <<now, cfFile, cfFileUsed, cfConfig, cfCount, cfBuilt,
                   cfGateway, cfReq>>
    /\ UNCHANGED <<cbVars, gwVars, tbVars, swVars, fwVars, drlVars, rlVars,
                   balVars, ppVars, amVars>>

\* a request arrives and is processed by the chain, rate limiter, proxies
\* and breakers main built: they hold the cfg they were built from
ServeRequest ==
    /\ cfBuilt # NilConfig
    /\ cfReq' = [served |-> TRUE, under |-> cfBuilt.v, current |-> cfConfig.v]
    /\ cfReq' # cfReq
    /\ UNCHANGED <<now, cfFile, cfFileUsed, cfConfig, cfLast, cfCount,
                   cfBuilt, cfGateway>>
    /\ UNCHANGED <<cbVars, gwVars, tbVars, swVars, fwVars, drlVars, rlVars,
                   balVars, ppVars, amVars>>

NextConfig ==
    \/ \E f \in FileContents : WriteFile(f)
    \/ Load
    \/ main
    \/ Reload
    \/ reloadConfig
    \/ Get
    \/ ServeRequest

SpecConfig == InitConfig /\ [][NextConfig]_vars

\* C30: after a Load or Reload that failed (file unreadable, unmarshal
\* error, validation error) Get() returns the snapshot it returned before
\* the call, and the snapshot in force is always one that passed validation
\* (or none before the first successful Load).
C30_FailedLoadKeepsSnapshot ==
    /\ (cfLast.op \in {"Load", "Reload"} /\ cfLast.err # None /\ cfLast.read)
       => cfLast.got = cfLast.before
    /\ cfConfig # NilConfig => validateConfig(cfConfig) = None
    /\ (cfLast.op \in {"Load", "Reload"} /\ cfConfig # cfLast.before)
       => cfLast.err = None

C30_Witness ==
    /\ cfLast.op = "Reload" /\ cfLast.err = "validation" /\ cfLast.read
    /\ cfLast.before # NilConfig
    /\ cfLast.got = cfLast.before
    /\ cfFile.kind = "config"

\* the validations the specification requires of a configuration
RequiredValidations(v) ==
    /\ v.Port >= 1 /\ v.Port <= 65535
    /\ v.Requests > 0 /\ v.Window > 0
    /\ v.URLs >= 1
    /\ v.Threshold > 0

\* C31: a configuration that violates a required validation (port outside
\* [1, 65535], a rate-limit rule with non-positive limit or window, a
\* service without endpoint URL, an enabled breaker with non-positive
\* threshold) is rejected by Load and Reload, so it never becomes the
\* snapshot.
C31_InvalidConfigRejected ==
    cfConfig # NilConfig => RequiredValidations(cfConfig.v)

\* C32: a request that arrives after a reload has succeeded is processed
\* under the new snapshot: the snapshot whose settings process a request is
\* the one Get() returns when the request arrives.
C32_RequestsSeeNewSnapshot ==
    cfReq.served => cfReq.under = cfReq.current

=============================================================================
